---- MODULE Spec2Model ----
(***************************************************************************)
(* Model of the NewRest recruitment / attendance bot.                      *)
(*                                                                         *)
(* The record store is the Google spreadsheet with the sheets REGISTRATION *)
(* (Candidates), WORKERS and one attendance sheet per month.  A sheet is   *)
(* the sequence of its data rows: element i is spreadsheet row i + 1, the  *)
(* header row is implicit.  Every inbound update (message, callback) and   *)
(* every scheduler scan is one action.  The inbound-update actions assume  *)
(* the record store and the messaging gateway answer: a handler runs to    *)
(* its end unless its own code raises.  The attendance sheet is kept with  *)
(* its header row: element i is spreadsheet row i.                         *)
(*                                                                         *)
(* Days are integers, Day 0 is a Monday (weekday = day % 7, as Python's    *)
(* datetime.weekday()).  A blank numeric cell is <<>>, a filled one <<n>>; *)
(* a blank text cell is "".                                                *)
(***************************************************************************)
EXTENDS Integers, Sequences, FiniteSets, TLC

\* ---------------------------------------------------------------- bounds
MaxDay == 3            \* last calendar day the model reaches
FirstDay == 1          \* the day the model starts on (a Tuesday)
TimeStep == 15         \* seconds that pass in one Elapse step
MaxRows == 2           \* rows a sheet may grow to
RateStep == 30         \* seconds that pass in one Tick step
MaxSchedDays == 2      \* days the scheduler loop is followed for
ScanStep == 20         \* seconds between two possible scan durations
MaxScanTime == 40      \* longest scan duration, in seconds
MaxNow == 34           \* last day on which course dates are proposed
MaxHandlers == 3       \* day_checkin callbacks handled at the same time

\* ------------------------------------------------------ program constants
CacheTtl == 30         \* ConnectionManager._cache_ttl
RetryLimit == 2        \* handle_day_checkin: "Allow 2 retries"
MaxRetries == 3        \* retry_on_quota_error(max_retries=3, delay=2)
RetryDelay == 2        \* seconds slept before the next attempt
RateCeiling == 50      \* RateLimiter(max_requests_per_minute=50)
RateWindow == 60       \* can_make_request: "now - req_time < 60"
StatusLookupCalls == 2 \* check_user_status: col_values(2), col_values(3)
ScanCalls == 7         \* get_users_for_reminder: seven col_values
SaveWorkerCalls == 5   \* save_worker_data: get_all_values, four update
WorkerUpdates == 4     \* save_worker_data: the update calls of one row
DaySeconds == 86400    \* seconds of a day
DayScanAt == 35400     \* 9:50, "hour == 9 and minute == 50"
PreScanAt == 36000     \* 10:00, "hour == 10 and minute == 0"
MinuteSeconds == 60    \* the trigger tests compare hour and minute only
PollSleep == 60        \* "await asyncio.sleep(60)"
AfterDaySleep == 600   \* "await asyncio.sleep(10 * 60)"
AfterPreSleep == 85800 \* "await asyncio.sleep(23 * 60 * 60 + 50 * 60)"

Users == {"u1"}                    \* subjects that send updates
Finished == {"u2"}                 \* a subject that finished the course earlier
AllUsers == Users \cup Finished
Positions == {"HL", "Supervisor", "EQ"}
Blank == <<>>
NoEntry == [data |-> "none", age |-> -1]   \* key absent from _cache
NoInstance == [exists |-> FALSE, selected_position |-> "None"]
EmptyData == [x \in {} |-> ""]               \* the dict {}
\* a RegistrationFlow object, with two logs: asked is the field of the
\* question last put to the subject, entered the last value the subject
\* entered for each field
NoFlow == [active |-> FALSE, language |-> "gr", current_step |-> 0,
           data |-> EmptyData, asked |-> "none", entered |-> EmptyData]
NoData == [present |-> FALSE, data |-> EmptyData]
Days == 1..MaxDay
NowTime == "09:55"                 \* get_greek_time() / strftime('%H:%M')

Min(a, b) == IF a < b THEN a ELSE b

\* ------------------------------------------------------------- variables
VARIABLES
  today,                       \* current calendar day (Europe/Athens)
  registration,                \* REGISTRATION sheet, data rows
  workers,                     \* WORKERS sheet, data rows
  monthly,                     \* attendance sheet of the month (<<>>: not created)
  cache,                       \* connection_manager._cache
  active_registrations,        \* message_handler.active_registrations
  candidate_data_storage,      \* message_handler.candidate_data_storage (int keys)
  admin_evaluation_instances,  \* message_handler.admin_evaluation_instances (str keys)
  userButtons,                 \* inline buttons delivered to each subject's chat
  adminButtons,                \* inline buttons delivered to the admin group
  sends,                       \* log: reminders sent, per <<kind, subject, course date>>
  hist,                        \* log: per subject, what has happened so far
  retry_calls,                 \* per wrapped operation, the call of it under way
  rate_window,                 \* RateLimiter.requests and a log of the store calls
  sched,                       \* the scheduler loop: time of its next iteration,
                               \* and a log of the scans it started per day
  proposal,                    \* the day, the position and the dates of the
                               \* last call of calculate_course_dates
  checkins,                    \* the handlers of day_checkin callbacks under way:
                               \* position and the retry count each has read
  console,                     \* working console: the pending action of each subject,
                               \* the position last shared and what the validator said
  connection,                  \* pooled spreadsheet connection: made, its age in seconds,
                               \* the connections created so far, the last call
  cache_log,                   \* what was stored in the cache and looked up: for each key the
                               \* value last stored and the seconds since, and the last lookup
  limiter_calls,               \* callers of the rate limiter between can_make_request
                               \* and record_request
  scan_log,                    \* the last scan whose sends could fail: its kind and day, the
                               \* subjects whose send raised, and REGISTRATION before it
  locations                    \* the handlers of location messages of one worker under way,
                               \* the pending action and the attendance writes made for each

\* the bot's records and dictionaries
botVars == <<today, registration, workers, monthly, cache, active_registrations,
             candidate_data_storage, admin_evaluation_instances, userButtons,
             adminButtons, sends, hist>>
\* the state of the service layer under the handlers
serviceVars == <<retry_calls, rate_window, sched, proposal, checkins, console, connection, cache_log, limiter_calls, scan_log, locations>>
vars == <<botVars, serviceVars>>

\* ------------------------------------------------------- sheet primitives
\* index of the first data row whose id column equals u, 0 if none
\* (the "for i, user_id_in_sheet in enumerate(id_column[1:], start=2)" loops)
RECURSIVE FindFrom(_, _, _)
FindFrom(rows, u, i) ==
  IF i > Len(rows) THEN 0
  ELSE IF rows[i].user_id = u THEN i ELSE FindFrom(rows, u, i + 1)

FindRow(rows, u) == FindFrom(rows, u, 1)

\* a cell counts as empty for the Sheets API when nothing was written to it
NumFields == {"course_date", "pre_course_reminder", "day_course_reminder",
              "retry_count"}
IsEmptyCell(f, v) == IF f \in NumFields THEN v = Blank ELSE v = ""

\* len(sheet.col_values(c)): the API drops the empty cells that trail the
\* column, so the list ends at the last non-empty cell; the header is cell 0
RECURSIVE LastFilled(_, _, _)
LastFilled(rows, f, i) ==
  IF i = 0 THEN 0
  ELSE IF ~IsEmptyCell(f, rows[i][f]) THEN i ELSE LastFilled(rows, f, i - 1)

ColLen(rows, f) == 1 + LastFilled(rows, f, Len(rows))

\* gspread update_cell(row, col, value) on the data row i
UpdateCell(rows, i, f, v) == [rows EXCEPT ![i] = [@ EXCEPT ![f] = v]]

\* ------------------------------------------------------------ row layouts
\* save_registration_data: the 20 columns A..T it appends (U..X stay empty)
RegistrationRow(data) ==
  [language |-> data.language, user_id |-> data.user_id,
   full_name |-> data.full_name, age |-> data.age, phone |-> data.phone,
   email |-> data.email, address |-> data.address,
   transportation |-> data.transportation, bank |-> data.bank,
   driving_license |-> data.driving_license, status |-> data.status,
   course_date |-> Blank, pre_course_reminder |-> Blank,
   day_course_reminder |-> Blank, first_reminder_sent |-> "",
   second_reminder_sent |-> "", first_reminder_response |-> "",
   retry_count |-> Blank]

\* save_worker_data / the fallback of AdminEvaluation.update_worker_status
WorkerRow(name, u, lang) ==
  [full_name |-> name, user_id |-> u, status |-> "WAITING",
   language |-> lang, position |-> ""]

\* self.data of a confirmed registration: text answers v, selections sel
CandidateData(u, name, v, sel, lang) ==
  [language |-> lang, user_id |-> u, full_name |-> name, age |-> v,
   phone |-> v, email |-> v, address |-> v, transportation |-> sel,
   bank |-> sel, driving_license |-> sel, status |-> "WAITING"]

\* ---------------------------------------------------------- status lookup
\* the search loop of check_user_status: the status of the first WORKERS row
\* of u; a blank status reads as UNKNOWN, no row as NOT_FOUND
StatusInSheet(ws, u) ==
  LET i == FindRow(ws, u)
  IN IF i = 0 THEN "NOT_FOUND"
     ELSE IF i < ColLen(ws, "status") /\ ws[i].status # "" THEN ws[i].status
     ELSE "UNKNOWN"

StatusKey(u) == <<"user_status", u>>
WorkingKey(u) == <<"working_status", u>>
CacheKeys == {StatusKey(u) : u \in AllUsers}
               \cup {WorkingKey(u) : u \in AllUsers}

\* a hit with the test "age <= ttl"
CacheHitInclusive(c, k) == c[k].age >= 0 /\ c[k].age <= CacheTtl
\* ConnectionManager.get_cached_data: a hit needs age < ttl; an expired entry
\* is deleted by the lookup
CacheHit(c, k) == c[k].age >= 0 /\ c[k].age < CacheTtl
CacheAfterGet(c, k) == IF CacheHit(c, k) THEN c ELSE [c EXCEPT ![k] = NoEntry]
\* ConnectionManager.set_cached_data
SetCachedData(c, k, d) == [c EXCEPT ![k] = [data |-> d, age |-> 0]]
\* ConnectionManager.clear_cache
ClearCache(c) == [k \in DOMAIN c |-> NoEntry]

\* check_user_status(user_id); admitted is rate_limiter.can_make_request(),
\* reachable says whether init_google_sheets() and the reads succeed
CheckUserStatusOn(c, ws, u, admitted, reachable) ==
  IF CacheHit(c, StatusKey(u))
  THEN [ret |-> c[StatusKey(u)].data, cache |-> c]
  ELSE IF ~admitted
  THEN [ret |-> "ERROR", cache |-> CacheAfterGet(c, StatusKey(u))]
  ELSE IF ~reachable
  THEN [ret |-> "ERROR", cache |-> CacheAfterGet(c, StatusKey(u))]
  ELSE [ret |-> StatusInSheet(ws, u),
        cache |-> SetCachedData(c, StatusKey(u), StatusInSheet(ws, u))]

\* check_user_status(user_id) while the record store answers
CheckUserStatus(c, ws, u, admitted) ==
  CheckUserStatusOn(c, ws, u, admitted, TRUE)

\* ------------------------------------------------------- attendance sheet
\* An attendance cell is the token sequence of its text: <<>> is the empty
\* cell, <<t, "-">> is "HH:MM-", <<t, "-", t2>> is "HH:MM-HH:MM".
EmptyCells == [d \in Days |-> <<>>]
\* create_monthly_sheet: the header row NAME, 1..31
MonthlyHeader == [name |-> "NAME", cells |-> EmptyCells]
\* get_monthly_sheet(sheet_name): the sheet, created when missing
GetMonthlySheet(ms) == IF ms = <<>> THEN <<MonthlyHeader>> ELSE ms

\* "for i, row in enumerate(monthly_data[2:], start=3)": the first sheet row
\* from row 3 on whose NAME cell equals user_name, 0 if none
RECURSIVE FindNameFrom(_, _, _)
FindNameFrom(ms, name, i) ==
  IF i > Len(ms) THEN 0
  ELSE IF ms[i].name = name THEN i ELSE FindNameFrom(ms, name, i + 1)

MonthlyUserRow(ms, name) == FindNameFrom(ms, name, 3)

\* create_user_row_in_monthly_sheet: the name goes into row len(all_values)+1
CreateUserRow(ms, name) == Append(ms, [name |-> name, cells |-> EmptyCells])

EndsWithDash(cell) == Len(cell) > 0 /\ cell[Len(cell)] = "-"
HasDash(cell) == \E i \in 1..Len(cell) : cell[i] = "-"

StatusResult(in, name, t_in, t_out, err) ==
  [checked_in |-> in, user_name |-> name, check_in_time |-> t_in,
   check_out_time |-> t_out, error |-> err]

\* the parse of today's cell at the end of get_user_working_status
ParseTodayData(cell, name) ==
  IF HasDash(cell) /\ ~EndsWithDash(cell)
  THEN StatusResult(FALSE, name, cell[1], cell[Len(cell)], "")
  ELSE IF EndsWithDash(cell)
  THEN StatusResult(TRUE, name, cell[1], "", "")
  ELSE StatusResult(TRUE, name, cell[1], "", "")

\* get_user_working_status(user_id): the result, the cache and the
\* attendance sheet it leaves; only a parsed non-empty cell is cached
GetUserWorkingStatus(c, ws, ms, u, day, admitted) ==
  IF CacheHit(c, WorkingKey(u))
  THEN [res |-> c[WorkingKey(u)].data, cache |-> c, monthly |-> ms]
  ELSE LET c1 == CacheAfterGet(c, WorkingKey(u))
           i == FindRow(ws, u)
           name == IF i = 0 THEN "" ELSE ws[i].full_name
           ms1 == GetMonthlySheet(ms)
           found == MonthlyUserRow(ms1, name)
           ms2 == IF found = 0 THEN CreateUserRow(ms1, name) ELSE ms1
           row == IF found = 0 THEN Len(ms1) + 1 ELSE found
           cell == ms2[row].cells[day]
       IN IF ~admitted
          THEN [res |-> StatusResult(FALSE, "", "", "", "Rate limit exceeded"),
                cache |-> c1, monthly |-> ms]
          ELSE IF name = ""
          THEN [res |-> StatusResult(FALSE, "", "", "",
                                     "User not found in workers sheet"),
                cache |-> c1, monthly |-> ms]
          ELSE IF cell = <<>>
          THEN [res |-> StatusResult(FALSE, name, "", "", ""),
                cache |-> c1, monthly |-> ms2]
          ELSE [res |-> ParseTodayData(cell, name),
                cache |-> SetCachedData(c1, WorkingKey(u),
                                        ParseTodayData(cell, name)),
                monthly |-> ms2]

\* -------------------------------------------------------- reminder system
\* a status write that takes the index in the id list for the sheet row, and
\* so lands one row above the subject's (the header for the first subject)
UpdateWorkerStatusRowAbove(ws, u, new_status) ==
  LET i == FindRow(ws, u)
  IN IF i <= 1 THEN ws ELSE UpdateCell(ws, i - 1, "status", new_status)

\* ReminderSystem._update_worker_status: STATUS of the first WORKERS row of u
UpdateWorkerStatus(ws, u, new_status) ==
  LET i == FindRow(ws, u)
  IN IF i = 0 THEN ws ELSE UpdateCell(ws, i, "status", new_status)

\* ReminderSystem._mark_reminder_sent: column U or V of the first row of u
MarkReminderSent(reg, u, reminder_type) ==
  LET i == FindRow(reg, u)
  IN IF i = 0 THEN reg
     ELSE IF reminder_type = "FIRST_REMINDER_SENT"
     THEN UpdateCell(reg, i, "first_reminder_sent", "SENT")
     ELSE IF reminder_type = "SECOND_REMINDER_SENT"
     THEN UpdateCell(reg, i, "second_reminder_sent", "SENT")
     ELSE reg

\* ReminderSystem._mark_reminder_response: column W of the first row of u
MarkReminderResponse(reg, u, response) ==
  LET i == FindRow(reg, u)
  IN IF i = 0 THEN reg
     ELSE UpdateCell(reg, i, "first_reminder_response", response)

\* ReminderSystem._get_retry_count: a row past the end of column X reads 0
GetRetryCount(reg, u) ==
  LET i == FindRow(reg, u)
  IN IF i = 0 \/ ~(i < ColLen(reg, "retry_count")) THEN 0
     ELSE IF reg[i].retry_count = Blank THEN 0 ELSE reg[i].retry_count[1]

\* ReminderSystem._increment_retry_count: writes only within column X
IncrementRetryCount(reg, u) ==
  LET i == FindRow(reg, u)
  IN IF i = 0 \/ ~(i < ColLen(reg, "retry_count")) THEN reg
     ELSE UpdateCell(reg, i, "retry_count", <<GetRetryCount(reg, u) + 1>>)

\* ReminderSystem._reset_retry_count
ResetRetryCount(reg, u) ==
  LET i == FindRow(reg, u)
  IN IF i = 0 THEN reg ELSE UpdateCell(reg, i, "retry_count", <<0>>)

\* user_status_map of the two scans: a later WORKERS row of the same id
\* overwrites an earlier one; "None" when the id has no row with a status
RECURSIVE StatusMapFrom(_, _, _)
StatusMapFrom(ws, u, i) ==
  IF i = 0 THEN "None"
  ELSE IF ws[i].user_id = u /\ i < ColLen(ws, "status") /\ ws[i].status # ""
       THEN ws[i].status
       ELSE StatusMapFrom(ws, u, i - 1)

UserStatusMap(ws, u) == StatusMapFrom(ws, u, Len(ws))

\* the row filter of get_users_for_reminder(target_date)
DueForReminder(reg, ws, i, target_date) ==
  /\ i < ColLen(reg, "user_id")
  /\ i < ColLen(reg, "pre_course_reminder")
  /\ i < ColLen(reg, "first_reminder_sent")
  /\ i < ColLen(reg, "course_date")
  /\ i < ColLen(reg, "language")
  /\ reg[i].pre_course_reminder = <<target_date>>
  /\ reg[i].first_reminder_sent = ""
  /\ UserStatusMap(ws, reg[i].user_id) \notin {"REJECTED", "CANCELLED"}

\* the row filter of get_users_for_day_reminder(target_date)
DueForDayReminder(reg, ws, i, target_date) ==
  /\ i < ColLen(reg, "user_id")
  /\ i < ColLen(reg, "day_course_reminder")
  /\ i < ColLen(reg, "course_date")
  /\ i < ColLen(reg, "first_reminder_response")
  /\ i < ColLen(reg, "second_reminder_sent")
  /\ i < ColLen(reg, "language")
  /\ reg[i].day_course_reminder = <<target_date>>
  /\ UserStatusMap(ws, reg[i].user_id) = "APPROVED_COURSE_DATE_SET"
  /\ reg[i].first_reminder_response = "YES"
  /\ reg[i].second_reminder_sent = ""

RECURSIVE RowsFrom(_, _, _, _, _)
RowsFrom(reg, ws, i, target_date, day_scan) ==
  IF i > Len(reg) THEN <<>>
  ELSE (IF (IF day_scan THEN DueForDayReminder(reg, ws, i, target_date)
                        ELSE DueForReminder(reg, ws, i, target_date))
        THEN <<[user_id |-> reg[i].user_id, course_date |-> reg[i].course_date]>>
        ELSE <<>>)
       \o RowsFrom(reg, ws, i + 1, target_date, day_scan)

GetUsersForReminder(reg, ws, target_date) ==
  RowsFrom(reg, ws, 1, target_date, FALSE)
GetUsersForDayReminder(reg, ws, target_date) ==
  RowsFrom(reg, ws, 1, target_date, TRUE)

\* callback_data of the buttons, as data.split('_') sees them
StartData(u) == <<"admin", "eval", "start", u>>
ContinueData(u) == <<"admin", "eval", "continue", u>>
RejectData(u) == <<"admin", "eval", "reject", u>>
PositionData(p, u) == <<"admin", "eval", "position", p, u>>
DateData(d, u) == <<"admin", "eval", "date", d, u>>
CustomData(u) == <<"admin", "eval", "custom", u>>
ReminderYesData(u) == <<"reminder", "yes", u>>
ReminderNoData(u) == <<"reminder", "no", u>>
RescheduleData(u) == <<"reminder", "reschedule", u>>
NotInterestedData(u) == <<"reminder", "not", "interested", u>>
DayCheckinData(u) == <<"day", "checkin", u>>
ContactSupportData(u) == <<"contact", "support", u>>

\* the reminder log: a key is in once after its first send, in twice after
\* its second
LogSend(log, key) ==
  IF key \in log.once THEN [log EXCEPT !.twice = @ \cup {key}]
  ELSE [log EXCEPT !.once = @ \cup {key}]

\* A handler maps the record w of everything the program holds to the record
\* it leaves: day, reg (REGISTRATION), ws (WORKERS), ms (attendance sheet),
\* cache, flows, cds, evals, btn / abtn (buttons in the subjects' chats / in
\* the admin group), log (reminder log), hist, and of this operation alone:
\* msgs (messages sent to its subject), reminded (subjects it reminded), ret
\* (what check_user_status returned to it).
\* send_pre_course_reminder: the message with the Yes / No buttons, then the
\* FIRST_REMINDER_SENT marker
SendPreCourseReminder(w, u, course_date) ==
  [w EXCEPT !.btn[u] = @ \cup {ReminderYesData(u), ReminderNoData(u)},
            !.log = LogSend(@, <<"first", u, course_date>>),
            !.reminded = Append(@, u),
            !.reg = MarkReminderSent(@, u, "FIRST_REMINDER_SENT")]

\* send_day_course_reminder: the message with the check-in button, then the
\* SECOND_REMINDER_SENT marker
SendDayCourseReminder(w, u, course_date) ==
  [w EXCEPT !.btn[u] = @ \cup {DayCheckinData(u)},
            !.log = LogSend(@, <<"second", u, course_date>>),
            !.reminded = Append(@, u),
            !.reg = MarkReminderSent(@, u, "SECOND_REMINDER_SENT")]

\* "for user in users: await self.send_..._reminder(...)"
RECURSIVE SendToAll(_, _, _, _)
SendToAll(w, users, i, day_scan) ==
  IF i > Len(users) THEN w
  ELSE SendToAll(IF day_scan
                 THEN SendDayCourseReminder(w, users[i].user_id,
                                            users[i].course_date)
                 ELSE SendPreCourseReminder(w, users[i].user_id,
                                            users[i].course_date),
                 users, i + 1, day_scan)

\* send_pre_course_reminder that writes the marker although send_message
\* raised
SendPreCourseReminderMarksAnyway(w, u, course_date, delivered) ==
  IF delivered THEN SendPreCourseReminder(w, u, course_date)
  ELSE [w EXCEPT !.reg = MarkReminderSent(@, u, "FIRST_REMINDER_SENT")]

\* send_pre_course_reminder when bot.send_message may raise: the except
\* block returns False before the marker is written
SendPreCourseReminderOn(w, u, course_date, delivered) ==
  IF delivered THEN SendPreCourseReminder(w, u, course_date) ELSE w

\* send_day_course_reminder when bot.send_message may raise
SendDayCourseReminderOn(w, u, course_date, delivered) ==
  IF delivered THEN SendDayCourseReminder(w, u, course_date) ELSE w

\* the loop of a scan when the sends to the subjects in failed raise
RECURSIVE SendToAllOn(_, _, _, _, _)
SendToAllOn(w, users, i, day_scan, failed) ==
  IF i > Len(users) THEN w
  ELSE SendToAllOn(IF day_scan
                   THEN SendDayCourseReminderOn(w, users[i].user_id,
                                                users[i].course_date,
                                                users[i].user_id \notin failed)
                   ELSE SendPreCourseReminderOn(w, users[i].user_id,
                                                users[i].course_date,
                                                users[i].user_id \notin failed),
                   users, i + 1, day_scan, failed)

\* the subjects a scan of target_date derives as due
DueUsers(reg, ws, target_date, day_scan) ==
  LET users == RowsFrom(reg, ws, 1, target_date, day_scan)
  IN {users[i].user_id : i \in 1..Len(users)}

\* send_daily_reminders (day_scan false) or send_day_course_reminders when
\* the sends to the subjects in failed raise
RunScanOn(w, target_date, day_scan, failed) ==
  SendToAllOn(w, RowsFrom(w.reg, w.ws, 1, target_date, day_scan), 1,
              day_scan, failed)

\* send_daily_reminders / the pre-day part of the /simulate commands
RunPreDayScan(w, target_date) ==
  SendToAll(w, GetUsersForReminder(w.reg, w.ws, target_date), 1, FALSE)
\* send_day_course_reminders / the day part of the /simulate commands
RunDayScan(w, target_date) ==
  SendToAll(w, GetUsersForDayReminder(w.reg, w.ws, target_date), 1, TRUE)

\* ------------------------------------------------------- admin evaluation
\* Telegram delivers from.id as an int, a callback's data carries the id as
\* text: the in-process dictionaries are keyed by one or the other
IntKey(u) == <<"int", u>>
StrKey(u) == <<"str", u>>
DictKeys == {IntKey(u) : u \in AllUsers} \cup {StrKey(u) : u \in AllUsers}

Weekday(d) == d % 7

\* calculate_course_dates with "if days_ahead < 0"
CalculateCourseDatesFromToday(position, now) ==
  LET target_weekday == IF position = "EQ" THEN 4 ELSE 3
      diff == target_weekday - Weekday(now)
      days_ahead == IF diff < 0 THEN diff + 7 ELSE diff
  IN <<now + days_ahead, now + days_ahead + 7>>

\* AdminEvaluation.calculate_course_dates(position) on the day now
CalculateCourseDates(position, now) ==
  LET target_weekday == IF position = "EQ" THEN 4 ELSE 3
      diff == target_weekday - Weekday(now)
      days_ahead == IF diff <= 0 THEN diff + 7 ELSE diff
  IN <<now + days_ahead, now + days_ahead + 7>>

\* AdminEvaluation.update_worker_status(position, course_date, approved); a
\* subject without WORKERS row is appended first (name from candidate_data)
AdminUpdateWorkerStatus(ws, u, name, position, approved) ==
  LET i == FindRow(ws, u)
      ws1 == IF i = 0 THEN Append(ws, WorkerRow(name, u, "gr")) ELSE ws
      user_row == IF i = 0 THEN Len(ws) + 1 ELSE i
  IN IF approved
     THEN UpdateCell(UpdateCell(ws1, user_row, "status", "COURSE_DATE_SET"),
                     user_row, "position", position)
     ELSE UpdateCell(ws1, user_row, "status", "STOP")

\* AdminEvaluation.update_registration_sheet(position, course_date)
UpdateRegistrationSheet(reg, u, course_date) ==
  LET i == FindRow(reg, u)
  IN IF i = 0 THEN reg
     ELSE UpdateCell(UpdateCell(UpdateCell(reg, i, "course_date", <<course_date>>),
                                i, "pre_course_reminder", <<course_date - 1>>),
                     i, "day_course_reminder", <<course_date>>)

\* AdminEvaluation.save_evaluation(position, course_date, approved) with
\* notify_user_result; w.evals holds the instance that runs it
\* updated tells whether the calls of update_registration_sheet reach the
\* sheet: an exception of a call ends it with False, which save_evaluation
\* does not read
SaveEvaluationOn(w, u, position, course_date, approved, updated) ==
  LET ws1 == AdminUpdateWorkerStatus(w.ws, u, "Unknown", position, approved)
      reg1 == IF approved /\ updated
              THEN UpdateRegistrationSheet(w.reg, u, course_date)
              ELSE w.reg
  IN [w EXCEPT !.ws = ws1, !.reg = reg1,
               !.msgs = @ \cup {IF approved THEN "approved" ELSE "rejection"},
               !.hist[u] = IF approved THEN @ \cup {"approved"} ELSE @]

SaveEvaluation(w, u, position, course_date, approved) ==
  SaveEvaluationOn(w, u, position, course_date, approved, TRUE)

\* handle_admin_evaluation_callback(data)
HandleAdminEvaluationCallbackOn(w, data, updated) ==
  IF Len(data) < 4 THEN w
  ELSE
  LET action == data[3]
      u == data[Len(data)]
      k == StrKey(u)
      w1 == IF w.evals[k].exists THEN w
            ELSE [w EXCEPT !.evals[k] = [exists |-> TRUE,
                                         selected_position |-> "None"]]
  IN CASE action = "start" ->
            [w1 EXCEPT !.abtn = @ \cup {ContinueData(u), RejectData(u)}]
       [] action = "continue" ->
            [w1 EXCEPT !.abtn = @ \cup {PositionData(p, u) : p \in Positions}]
       [] action = "reject" -> SaveEvaluation(w1, u, "", 0, FALSE)
       [] action = "position" ->
            LET dates == CalculateCourseDates(data[4], w.day)
            IN [w1 EXCEPT !.evals[k].selected_position = data[4],
                          !.abtn = @ \cup {DateData(dates[1], u),
                                           DateData(dates[2], u),
                                           CustomData(u)}]
       [] action = "date" ->
            LET position == IF w1.evals[k].selected_position = "None"
                            THEN "Unknown"
                            ELSE w1.evals[k].selected_position
                w2 == SaveEvaluationOn(w1, u, position, data[4], TRUE, updated)
            IN [w2 EXCEPT !.evals[k] = NoInstance]
       \* custom: admin_eval.ask_custom_date() does not exist; the
       \* AttributeError is logged and the handler ends
       [] OTHER -> w1

HandleAdminEvaluationCallback(w, data) ==
  HandleAdminEvaluationCallbackOn(w, data, TRUE)

\* ------------------------------------------------------ reminder callbacks
\* ReminderSystem._handle_attendance_yes
HandleAttendanceYes(w, u) ==
  [w EXCEPT !.msgs = @ \cup {"attendance_confirmed"},
            !.ws = UpdateWorkerStatus(@, u, "APPROVED_COURSE_DATE_SET"),
            !.reg = MarkReminderResponse(@, u, "YES")]

\* ReminderSystem._handle_attendance_no: only offers the two follow-up buttons
HandleAttendanceNo(w, u) ==
  [w EXCEPT !.msgs = @ \cup {"reschedule_options"},
            !.btn[u] = @ \cup {RescheduleData(u), NotInterestedData(u)}]

\* handle_reschedule_request that also clears the course date
HandleRescheduleRequestClearsDate(w, u) ==
  [w EXCEPT !.msgs = @ \cup {"reschedule_requested", "admin_reschedule"},
            !.reg = IF FindRow(@, u) > 0
                    THEN UpdateCell(@, FindRow(@, u), "course_date", Blank)
                    ELSE @]

\* ReminderSystem.handle_reschedule_request: a message to the subject, then
\* _notify_admin_reschedule
HandleRescheduleRequest(w, u) ==
  [w EXCEPT !.msgs = @ \cup {"reschedule_requested", "admin_reschedule"}]

\* ReminderSystem.handle_not_interested
HandleNotInterested(w, u) ==
  [w EXCEPT !.msgs = @ \cup {"not_interested"},
            !.reg = MarkReminderResponse(@, u, "NO"),
            !.ws = UpdateWorkerStatus(@, u, "REJECTED")]

\* handle_reminder_callback(data): parts = data.split('_'), action = parts[1],
\* user_id = parts[2]
HandleReminderCallback(w, data) ==
  IF Len(data) < 3 THEN w
  ELSE LET action == data[2]
           user_id == data[3]
       IN CASE action = "yes" -> HandleAttendanceYes(w, user_id)
            [] action = "no" -> HandleAttendanceNo(w, user_id)
            [] action = "reschedule" -> HandleRescheduleRequest(w, user_id)
            [] action = "not_interested" -> HandleNotInterested(w, user_id)
            [] OTHER -> w

\* ReminderSystem._save_checkin_data: it calls get_monthly_sheet() without the
\* sheet_name the function requires; the TypeError is caught, False returned
\* and nothing is written
SaveCheckinData(ms, ws, u, day) == ms

\* LocationService.validate_location(user_id): "Always return True"
ValidateLocation(u) == TRUE

\* WorkingConsole.show_working_console: reads the working status, then sends
\* the console keyboard
ShowWorkingConsole(w, u, admitted) ==
  LET r == GetUserWorkingStatus(w.cache, w.ws, w.ms, u, w.day, admitted)
  IN [w EXCEPT !.cache = r.cache, !.ms = r.monthly,
               !.msgs = @ \cup {"working_console"}]

\* "await x" on a value that is no awaitable raises TypeError; the value that
\* LocationService.validate_location returns is a bool
IsAwaitable(v) == v \notin BOOLEAN

\* ReminderSystem.handle_day_checkin(user_id): validate_location is a plain
\* function and its result is awaited, so with fewer than two retries the
\* TypeError ends the handler in its except block before anything is sent
HandleDayCheckin(w, u, admitted) ==
  LET retry_count == GetRetryCount(w.reg, u)
  IN IF retry_count < RetryLimit /\ ~IsAwaitable(ValidateLocation(u))
     THEN w
     ELSE IF retry_count < RetryLimit /\ ~ValidateLocation(u)
     THEN [w EXCEPT !.msgs = @ \cup {"location_retry"},
                    !.btn[u] = @ \cup {DayCheckinData(u)},
                    !.reg = IncrementRetryCount(@, u)]
     ELSE IF retry_count >= RetryLimit
     THEN [w EXCEPT !.msgs = @ \cup {"contact_support"},
                    !.btn[u] = @ \cup {ContactSupportData(u)}]
     ELSE LET w1 == [w EXCEPT !.msgs = @ \cup {"checkin_successful"},
                              !.ms = SaveCheckinData(@, w.ws, u, w.day),
                              !.ws = UpdateWorkerStatus(@, u, "WORKING")]
              w2 == ShowWorkingConsole(w1, u, admitted)
          IN [w2 EXCEPT !.reg = ResetRetryCount(@, u)]

\* handle_day_checkin_callback(data): user_id = parts[2]
HandleDayCheckinCallback(w, data, admitted) ==
  IF Len(data) < 3 THEN w ELSE HandleDayCheckin(w, data[3], admitted)

\* ------------------------------------------------------- inbound messages
TriggerWords == {"reminder", "test", "start", "begin", "yes", "go"}

\* trigger_reminder_flow(user_id, user_status): the dates are read from the
\* first REGISTRATION row of the subject; no marker is consulted
TriggerReminderFlow(w, u) ==
  LET i == FindRow(w.reg, u)
      course_date == IF i > 0 /\ i < ColLen(w.reg, "course_date")
                     THEN w.reg[i].course_date ELSE Blank
      pre_course_reminder ==
        IF i > 0 /\ i < ColLen(w.reg, "pre_course_reminder")
        THEN w.reg[i].pre_course_reminder ELSE Blank
  IN IF course_date = Blank
     THEN [w EXCEPT !.msgs = @ \cup {"no_course_details"}]
     ELSE IF pre_course_reminder = <<w.day + 1>>
     THEN SendPreCourseReminder(w, u, course_date)
     ELSE IF course_date = <<w.day>>
     THEN SendDayCourseReminder(w, u, course_date)
     ELSE [w EXCEPT !.msgs = @ \cup {"course_info"}]

\* handle_working_message(user_id, message) for a text that is no console
\* command: the working console is shown
HandleWorkingMessage(w, u, text, admitted) == ShowWorkingConsole(w, u, admitted)

\* ------------------------------------------------------ registration flow
TextFields == <<"full_name", "age", "phone", "email", "address">>
SelectionFields == <<"transportation", "bank", "driving_license">>
IsTextField(f) == \E i \in 1..Len(TextFields) : TextFields[i] = f

\* a field name as the tokens between its underscores, and back
FieldTokens(f) ==
  CASE f = "full_name" -> <<"full", "name">>
    [] f = "driving_license" -> <<"driving", "license">>
    [] OTHER -> <<f>>
FieldOf(tokens) ==
  CASE tokens = <<"full", "name">> -> "full_name"
    [] tokens = <<"driving", "license">> -> "driving_license"
    [] Len(tokens) = 1 -> tokens[1]
    [] OTHER -> "?"

\* BUTTON_OPTIONS[language][field]; a value is the token sequence of its text
Buttons(language, field) ==
  CASE field = "transportation" ->
         IF language = "en"
         THEN {<<"PUBLIC TRANSPORT">>, <<"VEHICLE">>, <<"BOTH">>}
         ELSE {<<"MMM">>, <<"OXHMA">>, <<"KAI TA DYO">>}
    [] field = "bank" ->
         {<<"EURO", "BANK">>, <<"ALPHA", "BANK">>, <<"PIRAEUS", "BANK">>,
          <<"NATIONALBANK">>}
    [] field = "driving_license" ->
         IF language = "en" THEN {<<"YES">>, <<"NO">>}
         ELSE {<<"NAI">>, <<"OXI">>}
    [] OTHER -> {}

LangData(l) == <<"lang", l>>
SelectionData(field, button) == FieldTokens(field) \o button
EditData(field) == <<"edit">> \o FieldTokens(field)
ConfirmData == <<"confirm", "registration">>

\* self.data[field] = value
SetField(data, field, value) ==
  [x \in DOMAIN data \cup {field} |-> IF x = field THEN value ELSE data[x]]
\* self.data.get(field, default)
GetField(data, field, default) ==
  IF field \in DOMAIN data THEN data[field] ELSE default

RECURSIVE FirstMissing(_, _, _)
FirstMissing(fields, data, i) ==
  IF i > Len(fields) THEN "none"
  ELSE IF fields[i] \notin DOMAIN data THEN fields[i]
  ELSE FirstMissing(fields, data, i + 1)

\* RegistrationFlow.start_registration with show_language_selection
StartRegistration(w, u) ==
  [w EXCEPT !.flows[u] = [NoFlow EXCEPT !.active = TRUE, !.current_step = 1,
                                        !.asked = "language"],
            !.btn[u] = @ \cup {LangData("gr"), LangData("en")}]

\* RegistrationFlow.ask_text_question(field)
AskTextQuestion(w, u, field) == [w EXCEPT !.flows[u].asked = field]

\* RegistrationFlow.ask_selection_question(field)
AskSelectionQuestion(w, u, field) ==
  [w EXCEPT !.flows[u].asked = field,
            !.btn[u] = @ \cup {SelectionData(field, b) :
                                 b \in Buttons(w.flows[u].language, field)}]

\* RegistrationFlow.show_review_screen
ShowReviewScreen(w, u) ==
  [w EXCEPT !.flows[u].asked = "review",
            !.btn[u] = @ \cup {ConfirmData}
                         \cup {EditData(TextFields[i]) : i \in 1..Len(TextFields)}
                         \cup {EditData(SelectionFields[i]) :
                                 i \in 1..Len(SelectionFields)}]

\* RegistrationFlow.show_personal_info_questions
ShowPersonalInfoQuestions(w, u) ==
  LET field == FirstMissing(TextFields, w.flows[u].data, 1)
  IN IF field = "none" THEN w ELSE AskTextQuestion(w, u, field)

\* RegistrationFlow.show_selection_questions
ShowSelectionQuestions(w, u) ==
  LET field == FirstMissing(SelectionFields, w.flows[u].data, 1)
  IN IF field = "none"
     THEN ShowReviewScreen([w EXCEPT !.flows[u].current_step = 4], u)
     ELSE AskSelectionQuestion(w, u, field)

\* RegistrationFlow.handle_language_selection(callback_data)
HandleLanguageSelection(w, u, data) ==
  LET language == IF data = LangData("gr") THEN "gr"
                  ELSE IF data = LangData("en") THEN "en"
                  ELSE w.flows[u].language
  IN ShowPersonalInfoQuestions(
       [w EXCEPT !.flows[u].language = language, !.flows[u].current_step = 2], u)

\* RegistrationFlow.handle_text_answer(text): acts in step 2 only and fills
\* the first text field that has no value yet
HandleTextAnswer(w, u, text) ==
  LET field == FirstMissing(TextFields, w.flows[u].data, 1)
      w1 == [w EXCEPT !.flows[u].data = SetField(@, field, text)]
  IN IF w.flows[u].current_step # 2 \/ field = "none" THEN w
     ELSE IF field = "address"
     THEN ShowSelectionQuestions([w1 EXCEPT !.flows[u].current_step = 3], u)
     ELSE AskTextQuestion(w1, u, FirstMissing(TextFields, w1.flows[u].data, 1))

\* RegistrationFlow.handle_selection_answer(callback_data)
HandleSelectionAnswer(w, u, data) ==
  LET special == Len(data) >= 3 /\ data[1] = "driving" /\ data[2] = "license"
      raw == IF special THEN SubSeq(data, 3, Len(data)) ELSE Tail(data)
      field == IF special THEN "driving_license" ELSE data[1]
      value == IF special /\ raw = <<"YES">> THEN <<"NAI">>
               ELSE IF special /\ raw = <<"NO">> THEN <<"OXI">>
               ELSE raw
      w1 == [w EXCEPT !.flows[u].data = SetField(@, field, value)]
  IN CASE field = "transportation" -> AskSelectionQuestion(w1, u, "bank")
       [] field = "bank" -> AskSelectionQuestion(w1, u, "driving_license")
       [] field = "driving_license" ->
            ShowReviewScreen([w1 EXCEPT !.flows[u].current_step = 4], u)
       [] OTHER -> w1

\* RegistrationFlow.handle_edit_request(callback_data): asks the question of
\* the field again
HandleEditRequest(w, u, data) ==
  LET field == FieldOf(Tail(data))
  IN IF IsTextField(field) THEN AskTextQuestion(w, u, field)
     ELSE AskSelectionQuestion(w, u, field)

\* save_registration_data(data): append_row of columns A..T
SaveRegistrationData(reg, data) ==
  Append(reg, RegistrationRow(
    [language |-> GetField(data, "language", "gr"),
     user_id |-> GetField(data, "user_id", ""),
     full_name |-> GetField(data, "full_name", ""),
     age |-> GetField(data, "age", ""),
     phone |-> GetField(data, "phone", ""),
     email |-> GetField(data, "email", ""),
     address |-> GetField(data, "address", ""),
     transportation |-> GetField(data, "transportation", <<>>),
     bank |-> GetField(data, "bank", <<>>),
     driving_license |-> GetField(data, "driving_license", <<>>),
     status |-> GetField(data, "status", "WAITING")]))

\* save_worker_data(data): NAME, ID, STATUS, LANGUAGE into row len + 1
SaveWorkerData(ws, data) ==
  Append(ws, WorkerRow(GetField(data, "full_name", ""),
                       GetField(data, "user_id", ""),
                       GetField(data, "language", "gr")))

\* save_worker_data(data) when only the first written of its update calls
\* go through: the cells A, B, C, D of row len + 1 are written one by one
SaveWorkerDataUpTo(ws, data, written) ==
  IF written = 0 THEN ws
  ELSE Append(ws,
         [full_name |-> GetField(data, "full_name", ""),
          user_id |-> IF written >= 2 THEN GetField(data, "user_id", "")
                      ELSE "",
          status |-> IF written >= 3 THEN "WAITING" ELSE "",
          language |-> IF written >= WorkerUpdates
                       THEN GetField(data, "language", "gr") ELSE "",
          position |-> ""])

\* RegistrationFlow.confirm_registration, then the "del
\* active_registrations[user_id]" of handle_callback_query;
\* registration_success is what save_registration_data returns, written the
\* number of update calls of save_worker_data that go through
ConfirmRegistrationOn(w, u, registration_success, written) ==
  LET f == w.flows[u]
      data == SetField(SetField(SetField(f.data, "user_id", u),
                                "language", f.language), "status", "WAITING")
      worker_success == written = WorkerUpdates
      success == registration_success /\ worker_success
      saved == [w EXCEPT !.reg = IF registration_success
                                 THEN SaveRegistrationData(@, data) ELSE @,
                         !.ws = SaveWorkerDataUpTo(@, data, written),
                         !.flows[u] = NoFlow]
  IN IF success
     THEN [saved EXCEPT !.cds[IntKey(u)] = [present |-> TRUE, data |-> data],
                        !.abtn = @ \cup {StartData(u)},
                        !.msgs = @ \cup {"registration_complete"},
                        !.hist[u] = @ \cup {"registered"}]
     ELSE [saved EXCEPT !.msgs = @ \cup {"registration_failed"}]

\* both writes go through
ConfirmRegistration(w, u) == ConfirmRegistrationOn(w, u, TRUE, WorkerUpdates)

\* candidate_data_storage.get(key, default)
StoredCandidateData(cds, key, default) ==
  IF cds[key].present THEN cds[key].data ELSE default
\* the default of handle_admin_evaluation_callback: every field 'Unknown',
\* no language
PlaceholderData(u) ==
  [x \in {"user_id", "full_name", "age", "phone", "email", "transportation",
          "bank", "driving_license"} |->
     IF x = "user_id" THEN u ELSE "Unknown"]
\* the candidate data handle_admin_evaluation_callback hands to the
\* AdminEvaluation of subject u: user_id is parts[-1], a str
EvaluationCandidateData(w, u) ==
  StoredCandidateData(w.cds, StrKey(u), PlaceholderData(u))
\* notify_user_result: self.candidate_data.get('language', 'gr')
NotifyUserLanguage(w, u) ==
  GetField(EvaluationCandidateData(w, u), "language", "gr")
\* handle_reminder_callback: candidate_data_storage.get(user_id, {}) with
\* user_id = parts[2], then candidate_data.get('language', 'gr')
ReminderCallbackLanguage(w, u) ==
  GetField(StoredCandidateData(w.cds, StrKey(u), EmptyData), "language", "gr")

\* handle_registration_message(user_id, text): steps 2 and 3 only
HandleRegistrationMessage(w, u, text) ==
  IF w.flows[u].current_step \in {2, 3} THEN HandleTextAnswer(w, u, text)
  ELSE w

\* handle_telegram_message(message) for a text sent in a private chat;
\* admitted1 / admitted2 answer the rate limiter for the status lookup and
\* for the working-status lookup, reachable says whether the record store
\* answers
HandleTelegramMessageOn(w, u, text, admitted1, reachable, admitted2) ==
  IF w.flows[u].active THEN HandleRegistrationMessage(w, u, text)
  ELSE
  LET r == CheckUserStatusOn(w.cache, w.ws, u, admitted1, reachable)
      w1 == [w EXCEPT !.cache = r.cache, !.ret = r.ret]
  IN CASE r.ret = "WORKING" -> HandleWorkingMessage(w1, u, text, admitted2)
       [] r.ret = "NOT_FOUND" -> StartRegistration(w1, u)
       [] r.ret = "REJECTED" -> [w1 EXCEPT !.msgs = @ \cup {"rejection"}]
       [] r.ret \in {"COURSE_DATE_SET", "APPROVED_COURSE_DATE_SET"} ->
            IF text \in TriggerWords THEN TriggerReminderFlow(w1, u)
            ELSE [w1 EXCEPT !.msgs = @ \cup {"waiting"}]
       [] r.ret = "OFF" -> w1
       [] r.ret = "ERROR" ->
            HandleWorkingMessage(w1, u, text, admitted2 /\ reachable)
       [] OTHER -> [w1 EXCEPT !.msgs = @ \cup {"unknown_status"}]

\* handle_telegram_message(message) while the record store answers
HandleTelegramMessage(w, u, text, admitted1, admitted2) ==
  HandleTelegramMessageOn(w, u, text, admitted1, TRUE, admitted2)

\* handle_telegram_message(message) for a text of sender u in the admin
\* group that is no command: the loop over admin_evaluation_instances reads
\* admin_eval.waiting_for_custom_date, an attribute AdminEvaluation never
\* sets, so with any instance in the dict the AttributeError ends the
\* handler in its except block; with none the text is handled as a text of
\* its sender
HandleAdminGroupText(w, u, text, admitted1, admitted2) ==
  IF \E k \in DictKeys : w.evals[k].exists THEN w
  ELSE HandleTelegramMessage(w, u, text, admitted1, admitted2)

\* handle_callback_query(callback_query): user u pressed the button data
HandleCallbackQuery(w, u, data, admitted) ==
  IF Len(data) >= 3 /\ data[1] = "admin" /\ data[2] = "eval"
  THEN HandleAdminEvaluationCallback(w, data)
  ELSE IF Len(data) >= 2 /\ data[1] = "reminder"
  THEN HandleReminderCallback(w, data)
  ELSE IF Len(data) >= 3 /\ data[1] = "day" /\ data[2] = "checkin"
  THEN HandleDayCheckinCallback(w, data, admitted)
  ELSE IF u \in DOMAIN w.flows /\ w.flows[u].active
  THEN (IF Len(data) >= 2 /\ data[1] = "lang"
        THEN HandleLanguageSelection(w, u, data)
        ELSE IF Len(data) >= 2 /\ data[1] = "edit"
        THEN HandleEditRequest(w, u, data)
        ELSE IF data = ConfirmData THEN ConfirmRegistration(w, u)
        ELSE HandleSelectionAnswer(w, u, data))
  ELSE w

\* ---------------------------------------------------------------- actions
Texts == {"reminder", "hello"}        \* texts a subject types: lower case
Admin == "admin"                      \* the presser of admin-group buttons
Presses == {ReminderYesData(u) : u \in Users}
             \cup {ReminderNoData(u) : u \in Users}
             \cup {RescheduleData(u) : u \in Users}
             \cup {NotInterestedData(u) : u \in Users}
             \cup {DayCheckinData(u) : u \in Users}

\* the admin-group buttons the admins press: one of the positions, and the
\* course dates the model reaches
AdminPresses == {StartData(u) : u \in Users}
                  \cup {ContinueData(u) : u \in Users}
                  \cup {RejectData(u) : u \in Users}
                  \cup {PositionData("HL", u) : u \in Users}
                  \cup {DateData(d, u) : d \in Days, u \in Users}
                  \cup {CustomData(u) : u \in Users}

World ==
  [day |-> today, reg |-> registration, ws |-> workers, ms |-> monthly,
   cache |-> cache, flows |-> active_registrations,
   cds |-> candidate_data_storage, evals |-> admin_evaluation_instances,
   btn |-> userButtons, abtn |-> adminButtons, log |-> sends, hist |-> hist,
   msgs |-> {}, reminded |-> <<>>, ret |-> "-"]

\* the step that leaves w; a registration under way counts as the row it
\* is going to append
CommitBot(w) ==
  /\ Len(w.reg) + Cardinality({u \in Users : w.flows[u].active}) <= MaxRows
  /\ Len(w.ws) + Cardinality({u \in Users : w.flows[u].active}) <= MaxRows
  /\ today' = w.day
  /\ registration' = w.reg
  /\ workers' = w.ws
  /\ monthly' = w.ms
  /\ cache' = w.cache
  /\ active_registrations' = w.flows
  /\ candidate_data_storage' = w.cds
  /\ admin_evaluation_instances' = w.evals
  /\ userButtons' = w.btn
  /\ adminButtons' = w.abtn
  /\ sends' = w.log
  /\ hist' = w.hist

Commit(w) == CommitBot(w) /\ UNCHANGED serviceVars

\* the log of what a subject in registration enters: a text answers the text
\* question last asked, a button enters the value it shows
NoteText(w, u, text) ==
  IF w.flows[u].active /\ IsTextField(w.flows[u].asked)
  THEN [w EXCEPT !.flows[u].entered = SetField(@, w.flows[u].asked, text)]
  ELSE w

\* the selection field whose button (of either language) data is, or "none"
ButtonField(data) ==
  LET fits(field) == \E language \in {"gr", "en"} :
                       \E b \in Buttons(language, field) :
                         data = SelectionData(field, b)
  IN IF fits("transportation") THEN "transportation"
     ELSE IF fits("bank") THEN "bank"
     ELSE IF fits("driving_license") THEN "driving_license"
     ELSE "none"

NotePress(w, u, data) ==
  IF ~w.flows[u].active THEN w
  ELSE IF data \in {LangData("gr"), LangData("en")}
  THEN [w EXCEPT !.flows[u].entered = SetField(@, "language", data[2])]
  ELSE IF ButtonField(data) # "none"
  THEN [w EXCEPT !.flows[u].entered =
          SetField(@, ButtonField(data),
                   SubSeq(data, Len(FieldTokens(ButtonField(data))) + 1,
                          Len(data)))]
  ELSE w

\* a subject sends a text
Message(texts, admissions) ==
  \E u \in Users, text \in texts, admitted1, admitted2 \in admissions :
    Commit(HandleTelegramMessage(NoteText(World, u, text), u, text,
                                 admitted1, admitted2))

\* a subject presses a button that was delivered to its chat
UserCallback(presses, admissions) ==
  \E u \in Users, admitted \in admissions :
    \E data \in userButtons[u] \cap presses :
      Commit(HandleCallbackQuery(NotePress(World, u, data), u, data, admitted))

\* a subject presses Confirm while its registration is under way; each of
\* the two saves goes through or fails, and save_worker_data fails after
\* its first update call or a later one
ConfirmPress ==
  \E u \in Users, registration_success \in BOOLEAN,
     written \in 1..WorkerUpdates :
    /\ ConfirmData \in userButtons[u]
    /\ active_registrations[u].active
    /\ Commit(ConfirmRegistrationOn(NotePress(World, u, ConfirmData), u,
                                    registration_success, written))

\* an admin presses a button that was delivered to the admin group
AdminCallback(presses) ==
  \E data \in adminButtons \cap presses :
    Commit(HandleCallbackQuery(World, Admin, data, TRUE))

\* an admin presses a button of the admin group; the calls of
\* update_registration_sheet may fail
AdminDecision ==
  \E data \in adminButtons \cap AdminPresses, updated \in BOOLEAN :
    Commit(HandleAdminEvaluationCallbackOn(World, data, updated))

\* the scheduler's 10:00 scan: send_daily_reminders
SendDailyReminders ==
  Commit(RunPreDayScan(World, today))

\* the scheduler's 9:50 scan: send_day_course_reminders
SendDayCourseReminders ==
  Commit(RunDayScan(World, today))

\* the admin commands /simulate_reminders, /simulate_tomorrow, /simulate_today
AdminCommand ==
  \E cmd \in {"/simulate_reminders", "/simulate_tomorrow", "/simulate_today"} :
    Commit(CASE cmd = "/simulate_reminders" ->
                  RunDayScan(RunPreDayScan(World, today + 1), today)
             [] cmd = "/simulate_tomorrow" -> RunPreDayScan(World, today + 1)
             [] OTHER -> RunDayScan(World, today))

\* TimeStep seconds pass: the cache entries age
Age(c, by) ==
  [k \in DOMAIN c |-> IF c[k].age < 0 THEN c[k]
                       ELSE [c[k] EXCEPT !.age = Min(CacheTtl, @ + by)]]

Elapse ==
  /\ \E k \in DOMAIN cache : CacheHit(cache, k)
  /\ Commit([World EXCEPT !.cache = Age(@, TimeStep)])

\* midnight passes: every cache entry is older than its time to live
NextDay ==
  /\ today < MaxDay
  /\ Commit([World EXCEPT !.day = @ + 1, !.cache = Age(@, CacheTtl)])

\* ------------------------------------------------------------ retry policy
\* the operations decorated with retry_on_quota_error(_async)
WrappedOps == {"_init_google_sheets_with_retry", "get_user_working_status",
               "update_working_status"}
\* what the spreadsheet API answers to an attempt: success, HttpError with
\* status 429, or any other exception
ApiAnswers == {"ok", "quota", "other"}
IdleCall == [pc |-> "idle", attempt |-> 0, answers |-> <<>>, slept |-> 0,
             result |-> "none"]

\* the value the "except Exception" block of the wrapped function returns
ErrorValue(op) ==
  CASE op = "_init_google_sheets_with_retry" -> "status_error"
    [] op = "get_user_working_status" -> "error_dict"
    [] OTHER -> "False"

\* one run of the wrapped function: its whole body is inside
\* "try: ... except Exception as e: return <error value>", so whatever the
\* API raises the function returns and raises nothing
WrappedBody(op, answer) ==
  [raised |-> "none",
   value |-> IF answer = "ok" THEN "success" ELSE ErrorValue(op)]

\* a wrapper that runs the function again whenever it did not succeed
WrapperStepRetriesAll(call, op, answer) ==
  LET r == WrappedBody(op, answer)
      c == [call EXCEPT !.answers = Append(@, answer)]
  IN IF r.raised = "none" /\ r.value = "success"
     THEN [c EXCEPT !.pc = "done", !.result = r.value]
     ELSE IF call.attempt < MaxRetries - 1
     THEN [c EXCEPT !.attempt = @ + 1, !.slept = @ + RetryDelay]
     ELSE [c EXCEPT !.pc = "done", !.result = r.value]

\* one iteration of "for attempt in range(max_retries)" in sync_wrapper /
\* async_wrapper
WrapperStep(call, op, answer) ==
  LET r == WrappedBody(op, answer)
      c == [call EXCEPT !.answers = Append(@, answer)]
  IN IF r.raised = "none"
     THEN [c EXCEPT !.pc = "done", !.result = r.value]
     ELSE IF r.raised = "HttpError429" /\ call.attempt < MaxRetries - 1
     THEN [c EXCEPT !.attempt = @ + 1, !.slept = @ + RetryDelay]
     ELSE [c EXCEPT !.pc = "done", !.result = "raised"]

\* a caller calls a wrapped operation
CallWrapped ==
  /\ \E op \in WrappedOps :
       /\ retry_calls[op].pc = "idle"
       /\ retry_calls' = [retry_calls EXCEPT ![op] = [IdleCall EXCEPT !.pc = "try"]]
  /\ UNCHANGED <<botVars, rate_window, sched, proposal, checkins, console, connection, cache_log, limiter_calls, scan_log, locations>>

\* the wrapper runs the wrapped function once; the API answers
Attempt ==
  /\ \E op \in WrappedOps, answer \in ApiAnswers :
       /\ retry_calls[op].pc = "try"
       /\ retry_calls' =
            [retry_calls EXCEPT ![op] = WrapperStep(@, op, answer)]
  /\ UNCHANGED <<botVars, rate_window, sched, proposal, checkins, console, connection, cache_log, limiter_calls, scan_log, locations>>

\* the caller has taken the result
Return ==
  /\ \E op \in WrappedOps :
       /\ retry_calls[op].pc = "done"
       /\ retry_calls' = [retry_calls EXCEPT ![op] = IdleCall]
  /\ UNCHANGED <<botVars, rate_window, sched, proposal, checkins, console, connection, cache_log, limiter_calls, scan_log, locations>>

\* ------------------------------------------------------------ rate limiter
\* rate_window is a sequence of buckets, newest first: the entries of
\* RateLimiter.requests that are age seconds old (recorded), and the calls
\* the program made to the spreadsheet API at that time (calls, a log)
NewBucket == [age |-> 0, recorded |-> 0, calls |-> 0]
Horizon == RateWindow + RateStep

RECURSIVE SumOf(_, _)
SumOf(win, f) == IF win = <<>> THEN 0 ELSE Head(win)[f] + SumOf(Tail(win), f)

\* "[req_time for req_time in self.requests if now - req_time <= 60]"
PruneOldInclusive(win) == SelectSeq(win, LAMBDA b : b.age <= RateWindow)
\* "[req_time for req_time in self.requests if now - req_time < 60]"
PruneOld(win) == SelectSeq(win, LAMBDA b : b.age < RateWindow)
\* len(self.requests)
Recorded(win) == SumOf(win, "recorded")
\* spreadsheet calls of the last RateWindow seconds
WindowCalls(win) == SumOf(SelectSeq(win, LAMBDA b : b.age < RateWindow), "calls")

\* RateLimiter.can_make_request: what it returns, and self.requests after it
CanMakeRequest(win) == ~(Recorded(PruneOld(win)) >= RateCeiling)
AfterCanMakeRequest(win) == PruneOld(win)
\* RateLimiter.record_request
RecordRequest(win) == [win EXCEPT ![1].recorded = @ + 1]
\* n calls to the spreadsheet API
StoreCalls(win, n) == [win EXCEPT ![1].calls = @ + n]

\* check_user_status on a cache miss: the limiter is asked once, then the ID
\* and STATUS columns are read
StatusLookup ==
  /\ rate_window' = IF CanMakeRequest(rate_window)
                    THEN StoreCalls(
                           RecordRequest(AfterCanMakeRequest(rate_window)),
                           StatusLookupCalls)
                    ELSE AfterCanMakeRequest(rate_window)
  /\ UNCHANGED <<botVars, retry_calls, sched, proposal, checkins, console, connection, cache_log, limiter_calls, scan_log, locations>>

\* get_users_for_reminder, run by a scan or a /simulate command: the limiter
\* is not asked
ScanReads ==
  /\ WindowCalls(rate_window) <= RateCeiling
  /\ rate_window' = StoreCalls(rate_window, ScanCalls)
  /\ UNCHANGED <<botVars, retry_calls, sched, proposal, checkins, console, connection, cache_log, limiter_calls, scan_log, locations>>

\* save_worker_data at the end of a registration: the limiter is not asked
SaveWorkerWrites ==
  /\ WindowCalls(rate_window) <= RateCeiling
  /\ rate_window' = StoreCalls(rate_window, SaveWorkerCalls)
  /\ UNCHANGED <<botVars, retry_calls, sched, proposal, checkins, console, connection, cache_log, limiter_calls, scan_log, locations>>

\* RateStep seconds pass; the calls log covers the last RateWindow seconds,
\* and a request older than Horizon is followed no further: any
\* can_make_request drops it unseen
Tick ==
  /\ rate_window' =
       <<NewBucket>> \o
       SelectSeq([i \in 1..Len(rate_window) |->
                    [rate_window[i] EXCEPT
                       !.age = @ + RateStep,
                       !.calls = IF rate_window[i].age + RateStep < RateWindow
                                 THEN @ ELSE 0]],
                 LAMBDA b : b.age < Horizon /\ (b.recorded + b.calls > 0))
  /\ UNCHANGED <<botVars, retry_calls, sched, proposal, checkins, console, connection, cache_log, limiter_calls, scan_log, locations>>

\* the callers of the limiter: each runs "if not can_make_request(): return"
\* and then record_request(); the lock is held inside each of the two
\* methods and released between them
Callers == {"handler", "scheduler"}
limiterFrame == <<botVars, retry_calls, sched, proposal, checkins, console,
                  connection, cache_log, scan_log, locations>>

\* rate_limiter.can_make_request() of a caller
AskLimiter ==
  /\ \E c \in Callers :
       /\ limiter_calls[c] = "idle"
       /\ limiter_calls' =
            [limiter_calls EXCEPT
               ![c] = IF CanMakeRequest(rate_window) THEN "admitted"
                      ELSE "idle"]
  /\ rate_window' = AfterCanMakeRequest(rate_window)
  /\ UNCHANGED limiterFrame

\* rate_limiter.record_request() of a caller that was admitted
RecordLimiter ==
  /\ \E c \in Callers :
       /\ limiter_calls[c] = "admitted"
       /\ limiter_calls' = [limiter_calls EXCEPT ![c] = "idle"]
  /\ rate_window' = RecordRequest(rate_window)
  /\ UNCHANGED limiterFrame

\* --------------------------------------------------------------- scheduler
\* sched.t is the time, in seconds since the midnight (Europe/Athens) of
\* day 0, at which the loop of start_scheduler runs its next iteration;
\* sched.scans[d] counts the scans the loop started on day d
SchedDays == 0..(MaxSchedDays - 1)
ScanTimes == {d \in 0..MaxScanTime : d % ScanStep = 0}
StartOffsets == {o \in 0..(MinuteSeconds - 1) : o % ScanStep = 0}
NoScans == [day |-> 0, pre |-> 0]

DayOf(t) == t \div DaySeconds
TimeOfDay(t) == t % DaySeconds
\* "current_time.hour == 9 and current_time.minute == 50"
IsDayTrigger(t) ==
  TimeOfDay(t) >= DayScanAt /\ TimeOfDay(t) < DayScanAt + MinuteSeconds
\* "current_time.hour == 10 and current_time.minute == 0"
IsPreTrigger(t) ==
  TimeOfDay(t) >= PreScanAt /\ TimeOfDay(t) < PreScanAt + MinuteSeconds

\* start_scheduler is entered some seconds after the midnight of day 0
StartScheduler ==
  /\ ~sched.running
  /\ \E o \in StartOffsets : sched' = [sched EXCEPT !.running = TRUE, !.t = o]
  /\ UNCHANGED <<botVars, retry_calls, rate_window, proposal, checkins, console, connection, cache_log, limiter_calls, scan_log, locations>>

\* an iteration at 9:50: send_day_course_reminders runs for some time, then
\* the loop sleeps ten minutes
DayTrigger ==
  /\ sched.running
  /\ DayOf(sched.t) \in SchedDays
  /\ IsDayTrigger(sched.t)
  /\ \E d \in ScanTimes :
       sched' = [sched EXCEPT !.t = @ + d + AfterDaySleep,
                              !.scans[DayOf(sched.t)].day = @ + 1]
  /\ UNCHANGED <<botVars, retry_calls, rate_window, proposal, checkins, console, connection, cache_log, limiter_calls, scan_log, locations>>

\* an iteration at 10:00: send_daily_reminders runs for some time, then the
\* loop sleeps 23 hours 50 minutes
PreTrigger ==
  /\ sched.running
  /\ DayOf(sched.t) \in SchedDays
  /\ ~IsDayTrigger(sched.t)
  /\ IsPreTrigger(sched.t)
  /\ \E d \in ScanTimes :
       sched' = [sched EXCEPT !.t = @ + d + AfterPreSleep,
                              !.scans[DayOf(sched.t)].pre = @ + 1]
  /\ UNCHANGED <<botVars, retry_calls, rate_window, proposal, checkins, console, connection, cache_log, limiter_calls, scan_log, locations>>

\* an iteration at any other time: the loop sleeps a minute
Poll ==
  /\ sched.running
  /\ DayOf(sched.t) \in SchedDays
  /\ ~IsDayTrigger(sched.t)
  /\ ~IsPreTrigger(sched.t)
  /\ sched' = [sched EXCEPT !.t = @ + PollSleep]
  /\ UNCHANGED <<botVars, retry_calls, rate_window, proposal, checkins, console, connection, cache_log, limiter_calls, scan_log, locations>>

\* ------------------------------------------- day check-ins under way
\* handle_day_checkin of several callbacks of the subject u1, each at its
\* own position: the count is read, then the validation is awaited, then
\* the count is incremented by a read-modify-write of its own. The handler
\* looks at neither the status nor the buttons of the subject.
Handlers == 1..MaxHandlers
IdleHandler == [pc |-> "idle", retry_count |-> 0, result |-> "none"]
CheckinSubject == "u1"

\* handle_day_checkin after a validation that is awaited and fails
CheckinOutcomeValidationFails(h, reg, u) ==
  IF h.retry_count < RetryLimit
  THEN [h |-> [h EXCEPT !.pc = "done", !.result = "location_retry"],
        reg |-> IncrementRetryCount(reg, u)]
  ELSE [h |-> [h EXCEPT !.pc = "done", !.result = "contact_support"],
        reg |-> reg]

\* handle_day_checkin from "if retry_count < 2" on, for the count the
\* handler has read; of the success branch only the reset of the count
CheckinOutcome(h, reg, u) ==
  IF h.retry_count < RetryLimit /\ ~IsAwaitable(ValidateLocation(u))
  THEN [h |-> [h EXCEPT !.pc = "done", !.result = "raised"], reg |-> reg]
  ELSE IF h.retry_count < RetryLimit /\ ~ValidateLocation(u)
  THEN [h |-> [h EXCEPT !.pc = "done", !.result = "location_retry"],
        reg |-> IncrementRetryCount(reg, u)]
  ELSE IF h.retry_count >= RetryLimit
  THEN [h |-> [h EXCEPT !.pc = "done", !.result = "contact_support"],
        reg |-> reg]
  ELSE [h |-> [h EXCEPT !.pc = "done", !.result = "checked_in"],
        reg |-> ResetRetryCount(reg, u)]

checkinFrame == <<today, workers, monthly, cache, active_registrations,
                  candidate_data_storage, admin_evaluation_instances,
                  userButtons, adminButtons, sends, hist, retry_calls,
                  rate_window, sched, proposal, console, connection,
                  cache_log, limiter_calls, scan_log, locations>>

\* a day_checkin callback of the subject arrives
ReceiveCheckin ==
  /\ \E p \in Handlers :
       /\ checkins[p].pc = "idle"
       /\ checkins' = [checkins EXCEPT ![p].pc = "read"]
  /\ UNCHANGED <<registration, checkinFrame>>

\* "retry_count = await self._get_retry_count(user_id)"
ReadRetryCount ==
  /\ \E p \in Handlers :
       /\ checkins[p].pc = "read"
       /\ checkins' = [checkins EXCEPT
                         ![p].pc = "validate",
                         ![p].retry_count =
                           GetRetryCount(registration, CheckinSubject)]
  /\ UNCHANGED <<registration, checkinFrame>>

\* the handler goes on from the validation to its return
ValidateAndAct ==
  /\ \E p \in Handlers :
       /\ checkins[p].pc = "validate"
       /\ LET o == CheckinOutcome(checkins[p], registration, CheckinSubject)
          IN /\ checkins' = [checkins EXCEPT ![p] = o.h]
             /\ registration' = o.reg
  /\ UNCHANGED checkinFrame

\* the handler has returned
FinishCheckin ==
  /\ \E p \in Handlers :
       /\ checkins[p].pc = "done"
       /\ checkins' = [checkins EXCEPT ![p] = IdleHandler]
  /\ UNCHANGED <<registration, checkinFrame>>

\* ------------------------------------------------------------ course dates
\* ask_course_date(position) calls calculate_course_dates(position) on the
\* day proposal.now; day d is the weekday d % 7, Monday being 0
AskCourseDate ==
  /\ \E position \in Positions :
       proposal' = [proposal EXCEPT
                      !.position = position,
                      !.dates = CalculateCourseDates(position, proposal.now)]
  /\ UNCHANGED <<botVars, retry_calls, rate_window, sched, checkins, console, connection, cache_log, limiter_calls, scan_log, locations>>

\* midnight passes
DatePasses ==
  /\ proposal.now < MaxNow
  /\ proposal' = [now |-> proposal.now + 1, position |-> "None",
                  dates |-> <<>>]
  /\ UNCHANGED <<botVars, retry_calls, rate_window, sched, checkins, console, connection, cache_log, limiter_calls, scan_log, locations>>

\* -------------------------------------------------------- location service
\* WORK_LOCATION['radius_meters']
RadiusMeters == 500
\* A coordinate is missing (None), a number, or a value that math.radians
\* refuses. The positions of the model lie on the meridian of the work
\* site, where the haversine distance is the length of the arc between the
\* two latitudes: the number of a latitude is its distance in metres north
\* of the work site, the number of the longitude of the work site is 0.
Coordinate(kind, v) == [kind |-> kind, v |-> v]
Missing == Coordinate("None", 0)
NoNumber == Coordinate("str", 0)
Metres(v) == Coordinate("number", v)
WORK_LOCATION ==
  [latitude |-> Metres(0), longitude |-> Metres(0),
   radius_meters |-> RadiusMeters]
Offsets == {0, RadiusMeters - 1, RadiusMeters, RadiusMeters + 1,
            -RadiusMeters, -(RadiusMeters + 1)}
Latitudes == {Metres(v) : v \in Offsets} \cup {Missing, NoNumber}
Longitudes == {Metres(0), Missing, NoNumber}
\* what a location message carries, and a value that is neither an object
\* with coordinates nor a dict
Locations ==
  [type : {"dict"}, latitude : Latitudes, longitude : Longitudes]
    \cup {[type |-> "other", latitude |-> Missing, longitude |-> Missing]}
NoLocation == [type |-> "none", latitude |-> Missing, longitude |-> Missing]

Abs(x) == IF x < 0 THEN -x ELSE x
Infinity == [finite |-> FALSE, metres |-> 0]
\* calculate_distance(lat1, lon1, lat2, lon2): float('inf') when the
\* computation raises
CalculateDistance(lat1, lon1, lat2, lon2) ==
  IF \E c \in {lat1, lon1, lat2, lon2} : c.kind # "number"
  THEN Infinity
  ELSE [finite |-> TRUE, metres |-> Abs(lat2.v - lat1.v)]

\* validate_work_location with the comparison "distance < radius"
ValidateWorkLocationExclusive(location) ==
  IF location.type # "dict" THEN FALSE
  ELSE IF location.latitude = Missing \/ location.longitude = Missing
  THEN FALSE
  ELSE LET distance == CalculateDistance(WORK_LOCATION.latitude,
                                         WORK_LOCATION.longitude,
                                         location.latitude,
                                         location.longitude)
       IN distance.finite /\ distance.metres < WORK_LOCATION.radius_meters

\* validate_work_location(location)
ValidateWorkLocation(location) ==
  IF location.type # "dict" THEN FALSE
  ELSE IF location.latitude = Missing \/ location.longitude = Missing
  THEN FALSE
  ELSE LET distance == CalculateDistance(WORK_LOCATION.latitude,
                                         WORK_LOCATION.longitude,
                                         location.latitude,
                                         location.longitude)
       IN distance.finite /\ distance.metres <= WORK_LOCATION.radius_meters

\* -------------------------------------------------------- working console
\* get_greek_time(): the text "HH:MM" of the time of the call
Clock == "HH:MM"
NoConsole ==
  [pending_actions |-> [u \in AllUsers |-> "none"],
   location |-> NoLocation, is_valid |-> FALSE]

\* WorkingConsole._get_attendance_status(status)
GetAttendanceStatus(status) ==
  IF status.check_in_time = "" THEN "NOT_CHECKED_IN"
  ELSE IF status.check_out_time = "" THEN "CHECKED_IN"
  ELSE "COMPLETE"

\* a call of get_user_working_status whose result is not used further
ReadStatus(w, u, admitted) ==
  LET r == GetUserWorkingStatus(w.cache, w.ws, w.ms, u, w.day, admitted)
  IN [w EXCEPT !.cache = r.cache, !.ms = r.monthly]

\* existing_data.replace('-', ''): the tokens of the cell without the dashes
WithoutDash(cell) == SelectSeq(cell, LAMBDA t : t # "-")

\* update_working_status(user_id, checked_in, check_in_time, check_out_time):
\* whether it returns True, and the attendance sheet it leaves
UpdateWorkingStatus(ms, ws, u, day, checked_in, time) ==
  LET i == FindRow(ws, u)
      name == IF i = 0 THEN "" ELSE ws[i].full_name
      ms1 == GetMonthlySheet(ms)
      found == MonthlyUserRow(ms1, name)
      ms2 == IF found = 0 THEN CreateUserRow(ms1, name) ELSE ms1
      row == IF found = 0 THEN Len(ms1) + 1 ELSE found
      existing_data == ms2[row].cells[day]
      today_data ==
        IF checked_in THEN <<time, "-">>
        ELSE IF EndsWithDash(existing_data)
        THEN WithoutDash(existing_data) \o <<"-", time>>
        ELSE <<time>>
  IN IF name = "" THEN [ok |-> FALSE, monthly |-> ms]
     ELSE IF /\ ~checked_in
             /\ HasDash(existing_data) /\ ~EndsWithDash(existing_data)
     THEN [ok |-> FALSE, monthly |-> ms2]
     ELSE [ok |-> TRUE,
           monthly |-> [ms2 EXCEPT ![row].cells[day] = today_data]]

\* WorkingConsole.handle_check_in_out(message_text): the world and the
\* pending actions it leaves
HandleCheckInOut(w, pending, u, text, admitted) ==
  LET r == GetUserWorkingStatus(w.cache, w.ws, w.ms, u, w.day, admitted)
      w1 == [w EXCEPT !.cache = r.cache, !.ms = r.monthly]
      current_status == GetAttendanceStatus(r.res)
  IN IF text = "Check In"
     THEN IF current_status \in {"CHECKED_IN", "COMPLETE"}
          THEN [w |-> [w1 EXCEPT !.msgs = @ \cup {"already_checked_in"}],
                pending |-> pending]
          ELSE [w |-> [ReadStatus(w1, u, admitted) EXCEPT
                         !.msgs = @ \cup {"check_in_required"}],
                pending |-> [pending EXCEPT ![u] = "checkin"]]
     ELSE IF current_status # "CHECKED_IN"
          THEN [w |-> [w1 EXCEPT !.msgs = @ \cup {"not_checked_in"}],
                pending |-> pending]
          ELSE [w |-> [ReadStatus(w1, u, admitted) EXCEPT
                         !.msgs = @ \cup {"check_out_required"}],
                pending |-> [pending EXCEPT ![u] = "checkout"]]

\* WorkingConsole._complete_checkin and _complete_checkout: the write, then
\* the reads of the status for the messages that follow
CompleteAction(w, u, action, admitted) ==
  LET w0 == IF action = "checkout" THEN ReadStatus(w, u, admitted) ELSE w
      r == UpdateWorkingStatus(w0.ms, w0.ws, u, w0.day,
                               action = "checkin", Clock)
      w1 == [w0 EXCEPT !.ms = r.monthly,
                       !.cache = IF r.ok THEN ClearCache(@) ELSE @]
  IN IF r.ok
     THEN [ReadStatus(IF action = "checkin"
                      THEN ReadStatus(w1, u, admitted) ELSE w1,
                      u, admitted)
             EXCEPT !.msgs = @ \cup {IF action = "checkin"
                                     THEN "check_in_successful"
                                     ELSE "check_out_successful"}]
     ELSE [ShowWorkingConsole(w1, u, admitted)
             EXCEPT !.msgs = @ \cup {"error"}]

\* WorkingConsole.handle_location(location): without a pending action the
\* location is ignored; the pending action is dropped in every other case
HandleLocation(w, pending, u, location, admitted) ==
  IF pending[u] = "none" THEN [w |-> w, pending |-> pending]
  ELSE LET w1 == [ReadStatus(w, u, admitted) EXCEPT
                    !.msgs = @ \cup {"processing"}]
       IN [w |-> IF ~ValidateWorkLocation(location)
                 THEN [ShowWorkingConsole(ReadStatus(w1, u, admitted),
                                          u, admitted)
                         EXCEPT !.msgs = @ \cup {"location_not_valid"}]
                 ELSE CompleteAction(w1, u, pending[u], admitted),
           pending |-> [pending EXCEPT ![u] = "none"]]

consoleFrame == <<retry_calls, rate_window, sched, proposal, checkins,
                  connection, cache_log, limiter_calls, scan_log,
                  locations>>
ConsoleTexts == {"Check In", "Check Out"}
Workers == {"u2"}

\* handle_working_message(user_id, message): a location goes to
\* handle_location, a text with 'Check In' or 'Check Out' to
\* handle_check_in_out, any other text shows the console
HandleWorkingUpdate(w, pending, u, message, admitted) ==
  IF message.kind = "location"
  THEN HandleLocation(w, pending, u, message.location, admitted)
  ELSE IF message.text \in {"Check In", "Check Out"}
  THEN HandleCheckInOut(w, pending, u, message.text, admitted)
  ELSE [w |-> HandleWorkingMessage(w, u, message.text, admitted),
        pending |-> pending]

\* handle_telegram_message(message) for a message of a private chat, text or
\* location: the statuses WORKING and ERROR hand it to
\* handle_working_message
HandleTelegramUpdate(w, pending, u, message, admitted1, admitted2) ==
  LET r == CheckUserStatus(w.cache, w.ws, u, admitted1)
      w1 == [w EXCEPT !.cache = r.cache, !.ret = r.ret]
  IN IF ~w.flows[u].active /\ r.ret \in {"WORKING", "ERROR"}
     THEN HandleWorkingUpdate(w1, pending, u, message, admitted2)
     ELSE [w |-> HandleTelegramMessage(w, u, message.text, admitted1,
                                       admitted2),
           pending |-> pending]

\* the messages of the console: the two buttons and a position at the work
\* site (a location message has the text '')
TextMessage(text) == [kind |-> "text", text |-> text, location |-> NoLocation]
LocationAtWork ==
  [kind |-> "location", text |-> "",
   location |-> [type |-> "dict", latitude |-> Metres(0),
                 longitude |-> Metres(0)]]
ConsoleMessages == {TextMessage(t) : t \in ConsoleTexts} \cup {LocationAtWork}

\* a subject of any status sends one of the messages of the console
ConsoleUpdate ==
  \E u \in Users, message \in ConsoleMessages, admitted1 \in BOOLEAN,
     admitted2 \in BOOLEAN :
    LET r == HandleTelegramUpdate(World, console.pending_actions, u, message,
                                  admitted1, admitted2)
    IN /\ CommitBot(r.w)
       /\ console' = [console EXCEPT !.pending_actions = r.pending]
       /\ UNCHANGED consoleFrame

\* a working subject presses Check In or Check Out
CheckInOutMessage ==
  \E u \in Workers, text \in ConsoleTexts, admitted \in BOOLEAN :
    LET r == HandleCheckInOut(World, console.pending_actions, u, text,
                              admitted)
    IN /\ CommitBot(r.w)
       /\ console' = [console EXCEPT !.pending_actions = r.pending]
       /\ UNCHANGED consoleFrame

\* a working subject shares a position
LocationMessage ==
  \E u \in Workers, location \in Locations, admitted \in BOOLEAN :
    LET r == HandleLocation(World, console.pending_actions, u, location,
                            admitted)
    IN /\ CommitBot(r.w)
       /\ console' =
            IF console.pending_actions[u] = "none" THEN console
            ELSE [pending_actions |-> r.pending, location |-> location,
                  is_valid |-> ValidateWorkLocation(location)]
       /\ UNCHANGED consoleFrame

\* a worker, one of two, sends one of the messages of the console
NamesakeUpdate ==
  \E u \in AllUsers, message \in ConsoleMessages :
    LET r == HandleWorkingUpdate(World, console.pending_actions, u, message,
                                 TRUE)
    IN /\ CommitBot(r.w)
       /\ console' = [console EXCEPT !.pending_actions = r.pending]
       /\ UNCHANGED consoleFrame

\* --------------------------------------------- location messages under way
\* pending_actions[user_id] of one worker: the dict that
\* _request_location_for_check_in / _check_out stored (id tells the dicts
\* apart), its 'action' and its 'processing' entry
MaxActions == 2
ActionIds == 1..MaxActions
NoPending == [id |-> 0, action |-> "none", processing |-> FALSE]
IdleLocationHandler ==
  [pc |-> "idle", pending_action |-> NoPending, returned |-> "none"]
NoLocations ==
  [pending |-> NoPending, stored |-> 0,
   writes |-> [i \in ActionIds |-> 0],
   h |-> [p \in Handlers |-> IdleLocationHandler]]

\* a handler that leaves the mark to a later statement, after its first await
MarkWhenReturning(pending) == pending
\* "pending_actions[self.user_id]['processing'] = True", the statement before
\* the first await of handle_location
MarkProcessing(pending) == [pending EXCEPT !.processing = TRUE]

locationFrame == <<botVars, retry_calls, rate_window, sched, proposal,
                   checkins, console, connection, cache_log, limiter_calls,
                   scan_log>>

\* _request_location_for_check_in, _request_location_for_check_out: a new
\* dict replaces the entry of the user
RequestLocation ==
  \E action \in {"checkin", "checkout"} :
    /\ locations.stored < MaxActions
    /\ locations' =
         [locations EXCEPT
            !.stored = @ + 1,
            !.pending = [id |-> locations.stored + 1, action |-> action,
                         processing |-> FALSE]]
    /\ UNCHANGED locationFrame

\* handle_location up to its first await: no pending action or one that is
\* processing ends the handler, otherwise the action is marked
StartHandleLocation ==
  \E p \in Handlers :
    /\ locations.h[p].pc = "idle"
    /\ locations' =
         IF locations.pending.id = 0
         THEN [locations EXCEPT !.h[p].returned = "no_pending"]
         ELSE IF locations.pending.processing
         THEN [locations EXCEPT !.h[p].returned = "processing"]
         ELSE [locations EXCEPT
                 !.pending = MarkProcessing(locations.pending),
                 !.h[p] = [pc |-> "status",
                           pending_action |-> locations.pending,
                           returned |-> "none"]]
    /\ UNCHANGED locationFrame

\* "status = await get_user_working_status(...)", the processing message and
\* "await asyncio.sleep(1)": an exception goes to the except block
StatusAnswered ==
  \E p \in Handlers, raised \in BOOLEAN :
    /\ locations.h[p].pc = "status"
    /\ locations' =
         [locations EXCEPT
            !.h[p].pc = IF raised THEN "pop" ELSE "validate",
            !.h[p].returned = IF raised THEN "error" ELSE "none"]
    /\ UNCHANGED locationFrame

\* validate_work_location: a position outside the radius sends the error
\* text, one inside goes on to _complete_checkin / _complete_checkout
LocationValidated ==
  \E p \in Handlers, is_valid \in BOOLEAN :
    /\ locations.h[p].pc = "validate"
    /\ locations' =
         [locations EXCEPT
            !.h[p].pc = IF is_valid THEN "complete" ELSE "pop",
            !.h[p].returned = IF is_valid THEN "none" ELSE "invalid"]
    /\ UNCHANGED locationFrame

\* "await update_working_status(...)" of _complete_checkin /
\* _complete_checkout: the attendance write for the action the handler read
CompleteWrites ==
  \E p \in Handlers :
    /\ locations.h[p].pc = "complete"
    /\ locations' =
         [locations EXCEPT
            !.writes[locations.h[p].pending_action.id] = @ + 1,
            !.h[p].pc = "pop", !.h[p].returned = "written"]
    /\ UNCHANGED locationFrame

\* "pending_actions.pop(self.user_id, None)" at the three ends of the handler
PopPending ==
  \E p \in Handlers :
    /\ locations.h[p].pc = "pop"
    /\ locations' =
         [locations EXCEPT !.pending = NoPending, !.h[p].pc = "idle",
                           !.h[p].pending_action = NoPending]
    /\ UNCHANGED locationFrame

\* ------------------------------------------------------ pooled connection
\* "(now - self._last_connection_time) < 300"
ReuseSeconds == 300
ConnStep == 100
MaxConnections == 3
\* ConnectionManager.__init__: _connection and _last_connection_time are
\* None. A connection is known by the number of its creation; age is
\* now - _last_connection_time, counted up to ReuseSeconds.
NoPool == [made |-> FALSE, id |-> 0, status |-> "none", age |-> 0]
NoCall == [called |-> FALSE, force_refresh |-> FALSE, before |-> NoPool,
           after |-> NoPool, returned |-> 0]
NoConnection == [pool |-> NoPool, created |-> 0, last |-> NoCall]

\* _init_google_sheets_with_retry(): a dict with the status success or
\* error; it raises nothing
InitGoogleSheetsWithRetry(reachable) ==
  IF reachable THEN "success" ELSE "error"

\* ConnectionManager.get_connection with the test "<= 300"
GetConnectionInclusive(conn, force_refresh, reachable) ==
  IF /\ conn.pool.made
     /\ conn.pool.age <= ReuseSeconds
     /\ ~force_refresh
  THEN [conn EXCEPT !.last = [called |-> TRUE,
                              force_refresh |-> force_refresh,
                              before |-> conn.pool, after |-> conn.pool,
                              returned |-> conn.pool.id]]
  ELSE LET new == [made |-> TRUE, id |-> conn.created + 1,
                   status |-> InitGoogleSheetsWithRetry(reachable),
                   age |-> 0]
       IN [pool |-> new, created |-> conn.created + 1,
           last |-> [called |-> TRUE, force_refresh |-> force_refresh,
                     before |-> conn.pool, after |-> new,
                     returned |-> new.id]]

\* ConnectionManager.get_connection(force_refresh): the pool it leaves and
\* the record of the call
GetConnection(conn, force_refresh, reachable) ==
  IF /\ conn.pool.made
     /\ conn.pool.age < ReuseSeconds
     /\ ~force_refresh
  THEN [conn EXCEPT !.last = [called |-> TRUE,
                              force_refresh |-> force_refresh,
                              before |-> conn.pool, after |-> conn.pool,
                              returned |-> conn.pool.id]]
  ELSE LET new == [made |-> TRUE, id |-> conn.created + 1,
                   status |-> InitGoogleSheetsWithRetry(reachable),
                   age |-> 0]
       IN [pool |-> new, created |-> conn.created + 1,
           last |-> [called |-> TRUE, force_refresh |-> force_refresh,
                     before |-> conn.pool, after |-> new,
                     returned |-> new.id]]

connectionFrame == <<botVars, retry_calls, rate_window, sched, proposal,
                     checkins, console, cache_log, limiter_calls,
                     scan_log, locations>>

\* init_google_sheets() or a forced refresh is called
CallGetConnection ==
  /\ \E force_refresh \in BOOLEAN, reachable \in BOOLEAN :
       LET c == GetConnection(connection, force_refresh, reachable)
       IN /\ c.created <= MaxConnections
          /\ connection' = c
  /\ UNCHANGED connectionFrame

\* ConnStep seconds pass
ConnectionAges ==
  /\ connection.pool.made
  /\ connection.pool.age < ReuseSeconds
  /\ connection' = [connection EXCEPT
                      !.pool.age = Min(ReuseSeconds, @ + ConnStep)]
  /\ UNCHANGED connectionFrame

\* ---------------------------------------------------------- response cache
\* The keys and the values of the lookups of check_user_status. never is
\* the log of a key nothing was stored under; since counts the seconds
\* from the last store, up to CacheTtl.
LoggedKeys == {StatusKey(u) : u \in AllUsers}
CachedValues == {"WORKING", "WAITING"}
NoStore == [stored |-> FALSE, value |-> "none", since |-> 0]
NoLookup == [called |-> FALSE, key |-> StatusKey("u1"), before |-> NoStore,
             present |-> FALSE, returned |-> "none", left |-> NoEntry]
NoCacheLog == [stores |-> [k \in LoggedKeys |-> NoStore], got |-> NoLookup]

\* ConnectionManager.get_cached_data(key): the value returned, "none" for
\* None
GetCachedData(c, k) == IF CacheHit(c, k) THEN c[k].data ELSE "none"

cacheFrame == <<today, registration, workers, monthly, active_registrations,
                candidate_data_storage, admin_evaluation_instances,
                userButtons, adminButtons, sends, hist, retry_calls,
                rate_window, sched, proposal, checkins, console, connection,
                limiter_calls, scan_log, locations>>

\* set_cached_data(key, data)
StoreCachedData ==
  /\ \E k \in LoggedKeys, data \in CachedValues :
       /\ cache' = SetCachedData(cache, k, data)
       /\ cache_log' = [cache_log EXCEPT
                          !.stores[k] = [stored |-> TRUE, value |-> data,
                                         since |-> 0]]
  /\ UNCHANGED cacheFrame

\* get_cached_data(key)
LookUpCachedData ==
  /\ \E k \in LoggedKeys :
       /\ cache' = CacheAfterGet(cache, k)
       /\ cache_log' = [cache_log EXCEPT
                          !.got = [called |-> TRUE, key |-> k,
                                   before |-> cache_log.stores[k],
                                   present |-> cache[k] # NoEntry,
                                   returned |-> GetCachedData(cache, k),
                                   left |-> CacheAfterGet(cache, k)[k]]]
  /\ UNCHANGED cacheFrame

\* clear_cache()
ClearCachedData ==
  /\ \E k \in LoggedKeys : cache[k] # NoEntry
  /\ cache' = ClearCache(cache)
  /\ UNCHANGED <<cache_log, cacheFrame>>

\* TimeStep seconds pass
CacheAges ==
  /\ \E k \in LoggedKeys : /\ cache_log.stores[k].stored
                             /\ cache_log.stores[k].since < CacheTtl
  /\ cache' = Age(cache, TimeStep)
  /\ cache_log' = [cache_log EXCEPT
                     !.stores = [k \in LoggedKeys |->
                                   IF @[k].stored
                                   THEN [@[k] EXCEPT
                                           !.since = Min(CacheTtl,
                                                         @ + TimeStep)]
                                   ELSE @[k]]]
  /\ UNCHANGED cacheFrame

\* ------------------------------------------------------- scans that fail
NoScanLog == [ran |-> FALSE, day_scan |-> FALSE, day |-> 0, failed |-> {},
              before |-> <<>>, after |-> <<>>, ws |-> <<>>,
              reminded |-> <<>>]
scanFrame == <<retry_calls, rate_window, sched, proposal, checkins, console,
               connection, cache_log, limiter_calls, locations>>

\* one of the two scans runs today; Telegram refuses the messages to some
\* of the subjects
ScanWithFailures ==
  \E day_scan \in BOOLEAN, failed \in SUBSET AllUsers :
    /\ DueUsers(registration, workers, today, day_scan) # {}
    /\ LET w == RunScanOn(World, today, day_scan, failed)
       IN /\ CommitBot(w)
          /\ scan_log' = [ran |-> TRUE, day_scan |-> day_scan,
                          day |-> today, failed |-> failed,
                          before |-> registration, after |-> w.reg,
                          ws |-> workers,
                          reminded |-> w.reminded]
    /\ UNCHANGED scanFrame

\* --------------------------------------------------------- specifications
\* the registered subject of Users, waiting for its evaluation
WaitingData(u) == CandidateData(u, "n1", "x", <<"x">>, "gr")
\* the rows of a subject that attended its course before the model starts
FinishedRegistrationRow(u) ==
  [RegistrationRow(CandidateData(u, "n2", "x", <<"x">>, "gr")) EXCEPT
     !.course_date = <<FirstDay - 1>>,
     !.pre_course_reminder = <<FirstDay - 2>>,
     !.day_course_reminder = <<FirstDay - 1>>,
     !.first_reminder_sent = "SENT", !.second_reminder_sent = "SENT",
     !.first_reminder_response = "YES", !.retry_count = <<0>>]
FinishedWorkerRow(u) ==
  [WorkerRow("n2", u, "gr") EXCEPT !.status = "WORKING", !.position = "HL"]

InitCommon ==
  /\ today = FirstDay
  /\ monthly = <<>>
  /\ cache = [k \in CacheKeys |-> NoEntry]
  /\ active_registrations = [u \in Users |-> NoFlow]
  /\ admin_evaluation_instances = [k \in DictKeys |-> NoInstance]
  /\ userButtons = [u \in AllUsers |-> {}]
  /\ sends = [once |-> {}, twice |-> {}]
  /\ retry_calls = [op \in WrappedOps |-> IdleCall]
  /\ rate_window = <<NewBucket>>
  /\ sched = [running |-> FALSE, t |-> 0, scans |-> [d \in SchedDays |-> NoScans]]
  /\ proposal = [now |-> 0, position |-> "None", dates |-> <<>>]
  /\ checkins = [p \in Handlers |-> IdleHandler]
  /\ console = NoConsole
  /\ connection = NoConnection
  /\ cache_log = NoCacheLog
  /\ limiter_calls = [c \in Callers |-> "idle"]
  /\ scan_log = NoScanLog
  /\ locations = NoLocations

\* after the registration of the subject: its rows are the only rows, or are
\* followed by the rows of a subject that finished earlier
Init ==
  /\ InitCommon
  /\ \E others \in {<<>>, <<"u2">>} :
       /\ registration =
            <<RegistrationRow(WaitingData("u1"))>>
              \o [i \in 1..Len(others) |-> FinishedRegistrationRow(others[i])]
       /\ workers =
            <<WorkerRow("n1", "u1", "gr")>>
              \o [i \in 1..Len(others) |-> FinishedWorkerRow(others[i])]
  /\ candidate_data_storage =
       [k \in DictKeys |-> IF k = IntKey("u1")
                            THEN [present |-> TRUE, data |-> WaitingData("u1")]
                            ELSE NoData]
  /\ adminButtons = {StartData("u1")}
  /\ hist = [u \in AllUsers |-> IF u \in Users THEN {"registered"}
                                  ELSE {"registered", "approved"}]

Next ==
  \/ Message(Texts, BOOLEAN)
  \/ UserCallback(Presses, BOOLEAN)
  \/ AdminCallback(AdminPresses)
  \/ SendDailyReminders
  \/ SendDayCourseReminders
  \/ AdminCommand
  \/ Elapse
  \/ NextDay

Spec == Init /\ [][Next]_vars

\* the registration of a new subject: the sheets hold the rows of a subject
\* that registered earlier
RegTexts == {"a", "b"}
RegPresses == {LangData("gr"), LangData("en"), ConfirmData,
               SelectionData("transportation", <<"VEHICLE">>),
               SelectionData("transportation", <<"OXHMA">>),
               SelectionData("bank", <<"EURO", "BANK">>),
               SelectionData("bank", <<"NATIONALBANK">>),
               SelectionData("driving_license", <<"YES">>),
               SelectionData("driving_license", <<"OXI">>),
               EditData("full_name"), EditData("bank")}

InitReg ==
  /\ InitCommon
  /\ registration = <<FinishedRegistrationRow("u2")>>
  /\ workers = <<FinishedWorkerRow("u2")>>
  /\ candidate_data_storage = [k \in DictKeys |-> NoData]
  /\ adminButtons = {}
  /\ hist = [u \in AllUsers |-> IF u \in Users THEN {}
                                  ELSE {"registered", "approved"}]

NextReg ==
  \/ Message(RegTexts, {TRUE})
  \/ UserCallback(RegPresses, {TRUE})

SpecReg == InitReg /\ [][NextReg]_vars

\* the registration of a new subject when the writes of the confirmation
\* can fail
SaveTexts == {"a"}
SavePresses == {LangData("en"),
                SelectionData("transportation", <<"VEHICLE">>),
                SelectionData("bank", <<"EURO", "BANK">>),
                SelectionData("driving_license", <<"YES">>)}

NextSave ==
  \/ Message(SaveTexts, {TRUE})
  \/ UserCallback(SavePresses, {TRUE})
  \/ ConfirmPress

\* the sheets hold their header rows only
InitSave ==
  /\ InitCommon
  /\ registration = <<>>
  /\ workers = <<>>
  /\ candidate_data_storage = [k \in DictKeys |-> NoData]
  /\ adminButtons = {}
  /\ hist = [u \in AllUsers |-> {}]

SpecSave == InitSave /\ [][NextSave]_vars

\* the retry wrapper around the three decorated operations
NextRetry ==
  \/ CallWrapped
  \/ Attempt
  \/ Return

SpecRetry == InitReg /\ [][NextRetry]_vars

\* the rate limiter and the calls to the spreadsheet API
NextRate ==
  \/ StatusLookup
  \/ ScanReads
  \/ SaveWorkerWrites
  \/ Tick

SpecRate == InitReg /\ [][NextRate]_vars

\* the scheduler loop, started within the first minute of day 0
NextSched ==
  \/ StartScheduler
  \/ DayTrigger
  \/ PreTrigger
  \/ Poll
SpecSched == InitReg /\ [][NextSched]_vars

\* the proposals of course dates, day after day
NextDates ==
  \/ AskCourseDate
  \/ DatePasses

SpecDates == InitReg /\ [][NextDates]_vars

\* the day_checkin callbacks of a registered subject, interleaved
NextCheckin ==
  \/ ReceiveCheckin
  \/ ReadRetryCount
  \/ ValidateAndAct
  \/ FinishCheckin

SpecCheckin == Init /\ [][NextCheckin]_vars

\* the working console of a subject that works, day after day
NextConsole ==
  \/ CheckInOutMessage
  \/ LocationMessage
  \/ Elapse
  \/ NextDay

SpecConsole == InitReg /\ [][NextConsole]_vars

\* the calls of get_connection as time passes
NextConnection ==
  \/ CallGetConnection
  \/ ConnectionAges

SpecConnection == InitReg /\ [][NextConnection]_vars

\* the response cache: stores, lookups and clears as time passes
NextCache ==
  \/ StoreCachedData
  \/ LookUpCachedData
  \/ ClearCachedData
  \/ CacheAges

SpecCache == InitReg /\ [][NextCache]_vars

\* two callers of the rate limiter, interleaved
NextLimiter ==
  \/ AskLimiter
  \/ RecordLimiter
  \/ Tick

SpecLimiter == InitReg /\ [][NextLimiter]_vars

\* evaluation, answers to the reminders and the two scans, whose sends can
\* fail
NextSend ==
  \/ AdminCallback(AdminPresses)
  \/ UserCallback(Presses, {TRUE})
  \/ ScanWithFailures
  \/ NextDay

SpecSend == Init /\ [][NextSend]_vars

\* the messages of the console sent by a subject that waits for its
\* evaluation
NextGate ==
  \/ ConsoleUpdate
  \/ Elapse
  \/ NextDay

SpecGate == Init /\ [][NextGate]_vars

\* two workers; full_name is the text the subject typed at registration,
\* so the second worker may carry the name of the first
FullNames == {"n1", "n2"}
InitNames ==
  /\ InitCommon
  /\ registration = <<FinishedRegistrationRow("u1"),
                      FinishedRegistrationRow("u2")>>
  /\ \E name \in FullNames :
       workers = <<[FinishedWorkerRow("u1") EXCEPT !.full_name = name],
                   FinishedWorkerRow("u2")>>
  /\ candidate_data_storage = [k \in DictKeys |-> NoData]
  /\ adminButtons = {}
  /\ hist = [u \in AllUsers |-> {"registered", "approved"}]

NextNames ==
  \/ NamesakeUpdate
  \/ NextDay

SpecNames == InitNames /\ [][NextNames]_vars

\* location messages of one worker handled in interleaved fashion
NextLocations ==
  \/ RequestLocation
  \/ StartHandleLocation
  \/ StatusAnswered
  \/ LocationValidated
  \/ CompleteWrites
  \/ PopPending

SpecLocations == InitReg /\ [][NextLocations]_vars

\* evaluations while the record store may refuse the Candidates update
NextApproval ==
  \/ AdminDecision
  \/ UserCallback(Presses, {TRUE})
  \/ SendDailyReminders
  \/ NextDay

SpecApproval == Init /\ [][NextApproval]_vars

\* ----------------------------------------------------------------- claims
\* the status of a subject: the STATUS cell of its WORKERS row
Status(u) == StatusInSheet(workers, u)
\* the cell f of the REGISTRATION row of a subject in the sheet reg
RegCell(reg, u, f) == reg[FindRow(reg, u)][f]
Count(seq, x) == Cardinality({i \in 1..Len(seq) : seq[i] = x})
\* what the handlers leave when subject u presses the button data now
AfterPress(u, data) ==
  HandleCallbackQuery(NotePress(World, u, data), u, data, TRUE)

\* C1: for every subject in COURSE_DATE_SET whose pre_course_reminder date
\* is today and whose first_reminder_sent marker is unset, one run of
\* send_daily_reminders sends that subject exactly one reminder and sets the
\* marker, and a second run the same day sends that subject none.
C1_PreDayScanOnce ==
  \A u \in Users :
    (/\ Status(u) = "COURSE_DATE_SET"
     /\ FindRow(registration, u) > 0
     /\ RegCell(registration, u, "pre_course_reminder") = <<today>>
     /\ RegCell(registration, u, "first_reminder_sent") = "")
    => LET first == RunPreDayScan(World, today)
           second == RunPreDayScan([first EXCEPT !.reminded = <<>>], today)
       IN /\ Count(first.reminded, u) = 1
          /\ RegCell(first.reg, u, "first_reminder_sent") = "SENT"
          /\ Count(second.reminded, u) = 0

\* C2: for each subject, reminder kind and course date at most one reminder
\* is ever sent, whichever operation sends it (scan, /simulate command,
\* trigger word).
C2_AtMostOneReminder == sends.twice = {}

\* C3: when a subject that answered NO presses "not interested", its status
\* becomes REJECTED, first_reminder_response becomes NO, and a scan that
\* follows sends it no reminder.
C3_NotInterestedRejects ==
  \A u \in Users :
    NotInterestedData(u) \in userButtons[u]
    => LET w == AfterPress(u, NotInterestedData(u))
       IN /\ StatusInSheet(w.ws, u) = "REJECTED"
          /\ RegCell(w.reg, u, "first_reminder_response") = "NO"
          /\ Count(RunPreDayScan(w, today).reminded, u) = 0
          /\ Count(RunDayScan(w, today).reminded, u) = 0

\* C4: when a subject presses Yes on the pre-day reminder, its status
\* becomes APPROVED_COURSE_DATE_SET, first_reminder_response becomes YES and
\* no rejection message is sent to it.
C4_YesApproves ==
  \A u \in Users :
    ReminderYesData(u) \in userButtons[u]
    => LET w == AfterPress(u, ReminderYesData(u))
       IN /\ StatusInSheet(w.ws, u) = "APPROVED_COURSE_DATE_SET"
          /\ RegCell(w.reg, u, "first_reminder_response") = "YES"
          /\ "rejection" \notin w.msgs

\* a subject has pressed Yes: only that handler writes the response YES
C4_Witness ==
  /\ ReminderYesData("u1") \in userButtons["u1"]
  /\ Status("u1") = "APPROVED_COURSE_DATE_SET"
  /\ RegCell(registration, "u1", "first_reminder_response") = "YES"

Rank(status) ==
  CASE status = "NOT_FOUND" -> 0
    [] status = "WAITING" -> 1
    [] status = "COURSE_DATE_SET" -> 2
    [] status = "APPROVED_COURSE_DATE_SET" -> 3
    [] status = "WORKING" -> 4
    [] OTHER -> 5

\* C5: a status changes only forward along NOT_FOUND, WAITING,
\* COURSE_DATE_SET, APPROVED_COURSE_DATE_SET, WORKING or into REJECTED / STOP:
\* it becomes APPROVED_COURSE_DATE_SET only from COURSE_DATE_SET, WORKING only
\* from APPROVED_COURSE_DATE_SET, and APPROVED_COURSE_DATE_SET or WORKING only
\* after an admin approved the subject.
C5_StatusPath ==
  [][\A u \in Users :
       LET old == Status(u)
           new == StatusInSheet(workers', u)
       IN old # new
          => /\ new = "APPROVED_COURSE_DATE_SET" => old = "COURSE_DATE_SET"
             /\ new = "WORKING" => old = "APPROVED_COURSE_DATE_SET"
             /\ new \notin {"REJECTED", "STOP"} => Rank(new) > Rank(old)
             /\ new \in {"APPROVED_COURSE_DATE_SET", "WORKING"}
                  => "approved" \in hist'[u]]_vars

\* C6: once the status of a subject is REJECTED or STOP no operation
\* changes it.
C6_RejectionTerminal ==
  [][\A u \in Users :
       Status(u) \in {"REJECTED", "STOP"}
       => StatusInSheet(workers', u) = Status(u)]_vars

CollectedFields == {"full_name", "age", "phone", "email", "address",
                    "transportation", "bank", "driving_license", "language"}
\* a driving-licence answer is stored in Greek
Stored(field, value) ==
  IF field = "driving_license" /\ value = <<"YES">> THEN <<"NAI">>
  ELSE IF field = "driving_license" /\ value = <<"NO">> THEN <<"OXI">>
  ELSE value

\* C7: the record a confirmed registration persists has status WAITING and
\* each collected field equals the last value the subject entered for it,
\* an answer given after "Edit <field>" included.
C7_RecordHoldsLastEntered ==
  \A u \in Users :
    (active_registrations[u].active /\ ConfirmData \in userButtons[u])
    => LET w == AfterPress(u, ConfirmData)
           row == w.reg[Len(w.reg)]
           entered == active_registrations[u].entered
       IN /\ row.user_id = u
          /\ row.status = "WAITING"
          /\ StatusInSheet(w.ws, u) = "WAITING"
          /\ \A f \in CollectedFields :
               f \in DOMAIN entered /\ row[f] = Stored(f, entered[f])

\* C8: a user_id has at most one row in REGISTRATION and in WORKERS, and a
\* worker at most one row in the attendance sheet of a month.
C8_OneRowPerUser ==
  /\ \A u \in AllUsers :
       /\ Cardinality({i \in 1..Len(registration) :
                         registration[i].user_id = u}) <= 1
       /\ Cardinality({i \in 1..Len(workers) : workers[i].user_id = u}) <= 1
  /\ \A i, j \in 2..Len(monthly) : monthly[i].name = monthly[j].name => i = j

\* C9: when a subject in APPROVED_COURSE_DATE_SET presses the day check-in
\* button and the location validation passes, its status becomes WORKING
\* and its attendance cell of the day holds "HH:MM-".
C9_DayCheckinRecorded ==
  \A u \in Users :
    (/\ DayCheckinData(u) \in userButtons[u]
     /\ Status(u) = "APPROVED_COURSE_DATE_SET"
     /\ GetRetryCount(registration, u) < RetryLimit
     /\ ValidateLocation(u))
    => LET w == AfterPress(u, DayCheckinData(u))
           name == w.ws[FindRow(w.ws, u)].full_name
       IN /\ StatusInSheet(w.ws, u) = "WORKING"
          /\ \E i \in 2..Len(w.ms) :
               w.ms[i].name = name /\ w.ms[i].cells[today] = <<NowTime, "-">>

\* C10: after a write that changes the status of a subject, the next
\* check_user_status returns the status that was written, never an earlier
\* one out of the cache.
C10_StatusReadIsFresh ==
  \A u \in Users :
    CheckUserStatus(cache, workers, u, TRUE).ret = Status(u)

\* C11: when the API answers a wrapped operation with a quota error, the
\* operation is attempted again after the fixed delay, up to MaxRetries
\* attempts, and the failure reaches the caller only after the last attempt.
C11_QuotaRetried ==
  \A op \in WrappedOps :
    LET c == retry_calls[op]
    IN (/\ c.pc = "done"
        /\ c.answers # <<>>
        /\ c.answers[Len(c.answers)] = "quota")
       => /\ Len(c.answers) = MaxRetries
          /\ c.slept = (MaxRetries - 1) * RetryDelay

\* C12: when the record store is unreachable or the rate limiter refuses
\* the read, the status lookup of a message does not return NOT_FOUND and
\* the message handler starts no registration flow for the subject.
C12_NoRegistrationOnError ==
  \A u \in Users, text \in RegTexts, admitted \in BOOLEAN, reachable \in BOOLEAN :
    (~(admitted /\ reachable) /\ ~active_registrations[u].active)
    => LET w == HandleTelegramMessageOn(World, u, text, admitted, reachable,
                                        TRUE)
       IN /\ w.ret # "NOT_FOUND"
          /\ ~w.flows[u].active

\* C13: in every window of RateWindow seconds the program makes no more
\* calls to the record store than the rate limiter's ceiling.
C13_CallsWithinCeiling == WindowCalls(rate_window) <= RateCeiling

\* C14: a day check-in attempt of a subject with fewer than RetryLimit
\* failed validations either passes the validation or re-prompts the subject
\* and counts one more failure; after RetryLimit failures the attempt is
\* answered with the contact-support action and no re-prompt.
C14_RetryThenEscalate ==
  \A u \in Users :
    DayCheckinData(u) \in userButtons[u]
    => LET n == GetRetryCount(registration, u)
           w == AfterPress(u, DayCheckinData(u))
       IN IF n < RetryLimit
          THEN \/ "checkin_successful" \in w.msgs
               \/ /\ "location_retry" \in w.msgs
                  /\ GetRetryCount(w.reg, u) = n + 1
          ELSE /\ "contact_support" \in w.msgs
               /\ "location_retry" \notin w.msgs

\* C15: when an admin rejects a candidate, the candidate's status becomes
\* REJECTED, the candidate is sent the rejection message, and nothing else
\* in the candidate's records changes.
C15_RejectSetsRejected ==
  \A u \in Users :
    (RejectData(u) \in adminButtons /\ FindRow(workers, u) > 0)
    => LET w == HandleCallbackQuery(World, Admin, RejectData(u), TRUE)
           i == FindRow(workers, u)
       IN /\ StatusInSheet(w.ws, u) = "REJECTED"
          /\ "rejection" \in w.msgs
          /\ w.reg = registration
          /\ w.ws = UpdateCell(workers, i, "status", w.ws[i].status)

\* C16: the day-of scan reminds a subject if and only if its
\* day_course_reminder date is today, its status is APPROVED_COURSE_DATE_SET,
\* its first_reminder_response is YES and its second_reminder_sent marker is
\* unset; it marks second_reminder_sent for every subject it reminds.
C16_DayScanExactlyTheDue ==
  LET w == RunDayScan(World, today)
  IN \A u \in AllUsers :
       FindRow(registration, u) > 0
       => LET due == /\ RegCell(registration, u, "day_course_reminder")
                          = <<today>>
                     /\ Status(u) = "APPROVED_COURSE_DATE_SET"
                     /\ RegCell(registration, u, "first_reminder_response")
                          = "YES"
                     /\ RegCell(registration, u, "second_reminder_sent") = ""
          IN /\ due <=> Count(w.reminded, u) = 1
             /\ Count(w.reminded, u) <= 1
             /\ Count(w.reminded, u) = 1
                  => RegCell(w.reg, u, "second_reminder_sent") = "SENT"

\* C17: on every day the scheduler loop runs through, it starts the day-of
\* scan at the 9:50 trigger and the pre-day scan at the 10:00 trigger, each
\* exactly once that day and the day-of scan first: no day has a scan started
\* twice or the pre-day scan before the day-of scan, and once the loop is
\* past the 10:00 minute of a day both scans of that day were started
C17_EachScanOncePerDay ==
  sched.running =>
    \A d \in SchedDays :
      /\ sched.scans[d].day <= 1
      /\ sched.scans[d].pre <= sched.scans[d].day
      /\ sched.t >= d * DaySeconds + PreScanAt + MinuteSeconds
           => sched.scans[d] = [day |-> 1, pre |-> 1]

\* C18: neither scan of the scheduler, run now, sends a reminder to a
\* subject whose status in WORKERS is REJECTED, STOP or OFF.
C18_NoReminderToStopped ==
  \A u \in AllUsers :
    Status(u) \in {"REJECTED", "STOP", "OFF"}
    => /\ Count(RunPreDayScan(World, today).reminded, u) = 0
       /\ Count(RunDayScan(World, today).reminded, u) = 0

\* C19: an admin_eval_* callback whose sender is a subject, not the admin
\* group, changes no status and no position in WORKERS and no status and no
\* course date in REGISTRATION.
C19_AdminEvalOnlyFromAdmin ==
  \A u \in Users, data \in AdminPresses :
    LET w == AfterPress(u, data)
    IN /\ Len(w.ws) = Len(workers)
       /\ \A i \in 1..Len(workers) :
            /\ w.ws[i].status = workers[i].status
            /\ w.ws[i].position = workers[i].position
       /\ Len(w.reg) = Len(registration)
       /\ \A i \in 1..Len(registration) :
            /\ w.reg[i].status = registration[i].status
            /\ w.reg[i].course_date = registration[i].course_date

\* C20: when confirm_registration runs for a subject whose registration is
\* under way and was not announced to the admins before, whatever the two
\* saves answer: if both writes went through,
\* the row of the subject in REGISTRATION and its row in WORKERS have status
\* WAITING and the admin group got the 'start evaluation' button of the
\* subject; and the admin group got that button only if both writes went
\* through.
C20_SavedThenNotified ==
  \A u \in Users :
    (/\ active_registrations[u].active
     /\ ConfirmData \in userButtons[u]
     /\ StartData(u) \notin adminButtons)
    => \A registration_success \in BOOLEAN, written \in 0..WorkerUpdates :
         LET w == ConfirmRegistrationOn(NotePress(World, u, ConfirmData), u,
                                        registration_success, written)
             both == registration_success /\ written = WorkerUpdates
             notified == StartData(u) \in w.abtn
         IN /\ both => /\ FindRow(w.reg, u) > 0
                        /\ RegCell(w.reg, u, "status") = "WAITING"
                        /\ FindRow(w.ws, u) > 0
                        /\ w.ws[FindRow(w.ws, u)].status = "WAITING"
                        /\ notified
            /\ notified => both

\* C21: when a subject in COURSE_DATE_SET that was sent the pre-day reminder
\* answers NO and then presses Reschedule, the admin group is notified and
\* the sheets are left as they were: status, course date, reminder dates,
\* reminder markers and first_reminder_response are unchanged.
C21_RescheduleWritesNothing ==
  \A u \in Users :
    (Status(u) = "COURSE_DATE_SET" /\ ReminderNoData(u) \in userButtons[u])
    => LET no == AfterPress(u, ReminderNoData(u))
           w == HandleCallbackQuery(no, u, RescheduleData(u), TRUE)
       IN /\ RescheduleData(u) \in no.btn[u]
          /\ "admin_reschedule" \in w.msgs
          /\ "admin_reschedule" \notin no.msgs
          /\ w.ws = workers
          /\ w.reg = registration
          /\ w.ms = monthly

\* a subject in COURSE_DATE_SET has answered NO: only that handler offers
\* the Reschedule button
C21_Witness ==
  /\ Status("u1") = "COURSE_DATE_SET"
  /\ ReminderNoData("u1") \in userButtons["u1"]
  /\ RescheduleData("u1") \in userButtons["u1"]
  /\ RegCell(registration, "u1", "course_date") # Blank

\* C22: on every weekday and for every position calculate_course_dates
\* proposes two dates: the first is the earliest Friday (EQ) or Thursday (HL,
\* Supervisor) strictly after today, the second is 7 days after the first,
\* neither is today, and when today is the target weekday the first is
\* today + 7.
C22_TwoDatesAfterToday ==
  proposal.position # "None"
  => LET now == proposal.now
         dates == proposal.dates
         target == IF proposal.position = "EQ" THEN 4 ELSE 3
     IN /\ Len(dates) = 2
        /\ Weekday(dates[1]) = target
        /\ dates[1] > now
        /\ \A d \in (now + 1)..(dates[1] - 1) : Weekday(d) # target
        /\ dates[2] = dates[1] + 7
        /\ dates[1] # now /\ dates[2] # now
        /\ Weekday(now) = target => dates[1] = now + 7

\* dates were proposed for EQ on a Friday
C22_Witness ==
  /\ proposal.position = "EQ"
  /\ Weekday(proposal.now) = 4
  /\ proposal.dates = <<proposal.now + 7, proposal.now + 14>>

\* C23: can_make_request returns false exactly when at least RateCeiling
\* requests were recorded less than RateWindow seconds ago (a request
\* RateWindow seconds old or older is not counted), and the call records
\* nothing itself: after it self.requests holds the counted requests only.
C23_RefusesAtCeiling ==
  LET counted == SumOf(SelectSeq(rate_window,
                                 LAMBDA b : ~(b.age >= RateWindow)),
                       "recorded")
      after == AfterCanMakeRequest(rate_window)
  IN /\ (CanMakeRequest(rate_window) = FALSE) <=> (counted >= RateCeiling)
     /\ Recorded(after) = counted
     /\ \A i \in 1..Len(after) :
          \E j \in 1..Len(rate_window) : after[i] = rate_window[j]

\* requests recorded exactly RateWindow seconds ago would reach the ceiling
\* if they were counted, and the limiter admits a request
C23_Witness ==
  /\ \E i \in 1..Len(rate_window) :
       rate_window[i].age = RateWindow /\ rate_window[i].recorded > 0
  /\ Recorded(rate_window) >= RateCeiling
  /\ CanMakeRequest(rate_window)

\* C24: an error of the spreadsheet API that is not a quota error is never
\* retried: the attempt that met it is the last attempt of the call and the
\* only one unless quota errors came before, the wrapper has not slept for
\* it, and the caller is handed the failure (the error value of the
\* operation, or the exception).
C24_OtherErrorNotRetried ==
  \A op \in WrappedOps :
    LET c == retry_calls[op]
    IN \A i \in 1..Len(c.answers) :
         c.answers[i] = "other"
         => /\ i = Len(c.answers)
            /\ \A j \in 1..(i - 1) : c.answers[j] = "quota"
            /\ c.pc = "done"
            /\ c.result \in {ErrorValue(op), "raised"}
            /\ i = 1 => c.slept = 0

\* a call met an error that is no quota error at its first attempt and has
\* returned the error value
C24_Witness ==
  \E op \in WrappedOps :
    /\ retry_calls[op].pc = "done"
    /\ retry_calls[op].answers = <<"other">>
    /\ retry_calls[op].result = ErrorValue(op)

\* C25: in every state the retry count of every subject is between 0 and
\* RetryLimit, also while several day_checkin callbacks of the subject are
\* handled at the same time.
C25_RetryCountBounded ==
  \A i \in 1..Len(registration) :
    /\ registration[i].retry_count = Blank
         \/ registration[i].retry_count[1] \in 0..RetryLimit
    /\ GetRetryCount(registration, registration[i].user_id) \in 0..RetryLimit

\* two handlers of the subject have read the count and are at the
\* validation, a third has returned; the count column is in use
C25_Witness ==
  /\ \E p, q \in Handlers :
       /\ p # q
       /\ checkins[p].pc = "validate"
       /\ checkins[q].pc = "validate"
  /\ \E p \in Handlers : checkins[p].pc = "done"
  /\ FindRow(registration, CheckinSubject) < ColLen(registration, "retry_count")

\* the three forms of an attendance cell: empty, "HH:MM-", "HH:MM-HH:MM"
CellEncodings == {<<>>, <<Clock, "-">>, <<Clock, "-", Clock>>}

\* C26: every attendance cell of the monthly sheet is empty, "HH:MM-" or
\* "HH:MM-HH:MM", whatever check-ins and check-outs of the working console
\* came before.
C26_CellEncodings ==
  \A i \in 1..Len(monthly) :
    \A d \in Days : monthly[i].cells[d] \in CellEncodings

\* C29: the position last shared for a pending action was admitted exactly
\* when it carries both coordinates and its distance to the work site was
\* computed and is at most radius_meters; so the distances 0 and
\* radius_meters - 1 and radius_meters are admitted, radius_meters + 1 is
\* rejected, and a missing coordinate or a failed computation is rejected.
C29_AdmittedWithinRadius ==
  console.location # NoLocation =>
    LET l == console.location
    IN console.is_valid <=>
            /\ l.type = "dict"
            /\ l.latitude.kind = "number"
            /\ l.longitude.kind = "number"
            /\ Abs(l.latitude.v) <= RadiusMeters
C29_Witness ==
  /\ console.location.type = "dict"
  /\ console.location.latitude = Metres(RadiusMeters)
  /\ console.location.longitude = Metres(0)
  /\ console.is_valid
  /\ \E i \in 1..Len(monthly) : monthly[i].cells[today] = <<Clock, "-">>

\* C27: a lookup of a key whose value was stored 30 seconds before or
\* earlier returns nothing and leaves no entry under the key; a lookup of an
\* entry that is in the cache and younger than 30 seconds returns the value
\* last stored under the key and leaves the entry.
C27_NoStaleEntry ==
  cache_log.got.called =>
    LET g == cache_log.got
    IN /\ (g.before.stored /\ g.before.since >= CacheTtl)
            => g.returned = "none" /\ g.left = NoEntry
       /\ (g.present /\ g.before.stored /\ g.before.since < CacheTtl)
            => g.returned = g.before.value /\ g.left # NoEntry
       /\ g.returned # "none"
            => /\ g.before.stored
               /\ g.before.since < CacheTtl
               /\ g.returned = g.before.value
C27_Witness ==
  /\ cache_log.got.called
  /\ cache_log.got.before.stored
  /\ cache_log.got.before.since = CacheTtl
  /\ cache_log.got.present
  /\ cache_log.got.returned = "none"
  /\ \E k \in LoggedKeys : CacheHit(cache, k)

\* C28: a call of get_connection returns the connection there was, and
\* creates none, exactly when there was one, it was made less than 300
\* seconds before and force_refresh is false; every other call creates a
\* connection, returns it and starts its 300 seconds anew.
C28_ReuseWhenFresh ==
  connection.last.called =>
    LET l == connection.last
        reuse == /\ l.before.made
                 /\ l.before.age < ReuseSeconds
                 /\ ~l.force_refresh
    IN /\ reuse => l.after = l.before /\ l.returned = l.before.id
       /\ ~reuse => /\ l.after.made
                    /\ l.after.id # l.before.id
                    /\ l.after.id = l.before.id + 1
                    /\ l.after.age = 0
                    /\ l.returned = l.after.id
       /\ connection.created = connection.pool.id
C28_Witness ==
  /\ connection.last.called
  /\ connection.last.before.made
  /\ connection.last.before.age = ReuseSeconds
  /\ ~connection.last.force_refresh
  /\ connection.last.returned = connection.last.before.id + 1
  /\ connection.pool.age > 0

\* the text an admin types for the course date d
DateText(d) == <<"date", d>>

\* C30: whenever the custom-date button of a subject is on offer in the
\* admin group, pressing it and then typing a date in the admin group
\* leaves the subject with status COURSE_DATE_SET and with the typed date
\* as its course_date.
C30_CustomDateCompletes ==
  \A u \in Users, sender \in Users, d \in Days :
    CustomData(u) \in adminButtons =>
      LET w1 == HandleCallbackQuery(World, Admin, CustomData(u), TRUE)
          w2 == HandleAdminGroupText(w1, sender, DateText(d), TRUE, TRUE)
      IN /\ StatusInSheet(w2.ws, u) = "COURSE_DATE_SET"
         /\ FindRow(w2.reg, u) > 0
         /\ RegCell(w2.reg, u, "course_date") = <<d>>

MarkerField(day_scan) ==
  IF day_scan THEN "second_reminder_sent" ELSE "first_reminder_sent"

\* C32: after a scan, a marker that the scan set belongs to a row of a
\* subject that was due and whose message went out (it is in the reminder
\* log); a subject that was due and whose send failed has every marker as
\* before and is due again for a scan of the same day.
C32_MarkedAfterSend ==
  scan_log.ran =>
    LET f == MarkerField(scan_log.day_scan)
        before == scan_log.before
        after == scan_log.after
        due == DueUsers(before, scan_log.ws, scan_log.day,
                        scan_log.day_scan)
        sent == {scan_log.reminded[j] : j \in 1..Len(scan_log.reminded)}
    IN /\ Len(after) = Len(before)
       /\ \A i \in 1..Len(after) :
            after[i] # before[i] =>
              /\ after[i].user_id \in sent \ scan_log.failed
              /\ after[i] = [before[i] EXCEPT ![f] = "SENT"]
       /\ \A u \in due \cap scan_log.failed :
            /\ u \notin sent
            /\ \A i \in 1..Len(after) :
                 after[i].user_id = u => after[i] = before[i]
            /\ u \in DueUsers(after, scan_log.ws, scan_log.day,
                               scan_log.day_scan)
C32_Witness ==
  /\ scan_log.ran
  /\ scan_log.day_scan
  /\ "u1" \in scan_log.failed
  /\ "u1" \in DueUsers(scan_log.before, scan_log.ws, scan_log.day, TRUE)
  /\ registration = scan_log.after
  /\ \E i \in 1..Len(registration) :
       /\ registration[i].user_id = "u1"
       /\ registration[i].first_reminder_sent = "SENT"
       /\ registration[i].second_reminder_sent = ""

\* C33: for a subject whose candidate data was stored at its confirmation,
\* the evaluation of the subject gets that data, and the language of the
\* result notification and of the replies to the reminder buttons is the
\* language stored with it.
C33_EvaluationUsesStoredData ==
  \A u \in Users :
    candidate_data_storage[IntKey(u)].present =>
      LET data == candidate_data_storage[IntKey(u)].data
      IN /\ EvaluationCandidateData(World, u) = data
         /\ NotifyUserLanguage(World, u) = data.language
         /\ ReminderCallbackLanguage(World, u) = data.language

\* C34: an attendance cell that holds a complete day, "HH:MM-HH:MM", holds
\* the same text after every step of the working console, whatever the
\* status lookups of the step answered.
C34_CompleteCellKept ==
  [][\A i \in 1..Len(monthly) :
       \A d \in Days :
         monthly[i].cells[d] = <<Clock, "-", Clock>>
           => /\ i <= Len(monthly')
              /\ monthly'[i].cells[d] = monthly[i].cells[d]]_vars

\* the name of subject u in WORKERS, "" without a row
NameOf(u) ==
  IF FindRow(workers, u) = 0 THEN "" ELSE workers[FindRow(workers, u)].full_name

\* C35: a step leaves the attendance rows of every subject whose status is
\* not WORKING as they were: no cell of such a row changes and a row added
\* for such a subject has empty cells only.
C35_OnlyWorkingWrites ==
  [][\A u \in Users :
       StatusInSheet(workers, u) # "WORKING" =>
         \A i \in 1..Len(monthly') :
           monthly'[i].name = NameOf(u) =>
             IF i <= Len(monthly)
             THEN monthly'[i].cells = monthly[i].cells
             ELSE monthly'[i].cells = EmptyCells]_vars

\* C36: an attendance write for one worker leaves the attendance row that
\* the lookups read for any other worker of the Workers table as it was.
C36_WriteKeepsOtherRows ==
  \A u \in AllUsers, v \in AllUsers :
    (u # v /\ FindRow(workers, u) # 0 /\ FindRow(workers, v) # 0) =>
      \A checked_in \in BOOLEAN :
        LET ms1 == GetMonthlySheet(monthly)
            row == MonthlyUserRow(ms1, NameOf(v))
            r == UpdateWorkingStatus(monthly, workers, u, today, checked_in,
                                     Clock)
        IN row # 0 => r.monthly[row].cells = ms1[row].cells

\* C37: for one pending check-in or check-out action at most one attendance
\* write is made, however the handlers of the location messages interleave.
C37_OneWritePerAction ==
  \A i \in ActionIds : locations.writes[i] <= 1

\* an action was written once while a later handler found it processing and
\* returned
C37_Witness ==
  /\ \E i \in ActionIds : locations.writes[i] = 1
  /\ \E p \in Handlers, q \in Handlers :
       /\ p # q
       /\ locations.h[p].returned = "written"
       /\ locations.h[q].returned = "processing"

\* C38: a subject whose status is COURSE_DATE_SET has a Candidates row with
\* course_date set, the pre-course reminder on the day before it and the
\* day-course reminder on it.
C38_CourseDateSetHasDates ==
  \A u \in AllUsers :
    StatusInSheet(workers, u) = "COURSE_DATE_SET" =>
      /\ FindRow(registration, u) # 0
      /\ LET row == registration[FindRow(registration, u)]
         IN /\ row.course_date # Blank
            /\ row.pre_course_reminder = <<row.course_date[1] - 1>>
            /\ row.day_course_reminder = row.course_date

\* C39: a failed connection attempt is not pooled: get_connection keeps no
\* result of status error as the reusable connection, and a call that finds
\* one makes a fresh attempt instead of returning it.
C39_FailureNotPooled ==
  /\ connection.pool.status # "error"
  /\ connection.last.called /\ connection.last.before.status = "error"
       => connection.last.returned # connection.last.before.id

\* C40: when an admin assigns a new course date to a subject whose row
\* carries the pre-day marker of an earlier course date, the subject is due
\* for the pre-day scan of the day before the new date, the one scan that
\* sends the reminder of that date.
C40_NewDateReminded ==
  \A data \in adminButtons :
    (/\ Len(data) = 5 /\ data[3] = "date"
     /\ FindRow(registration, data[5]) # 0
     /\ RegCell(registration, data[5], "first_reminder_sent") # ""
     /\ RegCell(registration, data[5], "course_date") # <<data[4]>>
     /\ data[4] - 1 >= today) =>
      LET w1 == HandleCallbackQuery(World, Admin, data, TRUE)
      IN data[5] \in DueUsers(w1.reg, w1.ws, data[4] - 1, FALSE)
====
